---- MODULE Spec2Model ----
(***************************************************************************)
(* Credential persistence and synchronisation of the ARTLEE CRM: the       *)
(* multi-tier save path (storeApiKeys) and read path (retrieveApiKeys) of  *)
(* apiKeyFallbackService, the browser-side backups of retellCredentials    *)
(* (storeCredentialsEverywhere), and the tables user_profiles and          *)
(* user_settings they talk to.                                             *)
(*                                                                         *)
(* A string is a sequence of tokens ("key_3660" is <<"key_", "3660">>), so *)
(* that prefixes and the cipher envelope are computed, not assumed.        *)
(***************************************************************************)
EXTENDS Integers, Sequences, FiniteSets, TLC

\* ------------------------------------------------------------------ bounds
\* Number of save/load/logout operations started in one behaviour.
MaxOps == 2

\* ------------------------------------------------------------------ values
Absent == << >>
K1 == <<"key_", "3660">>
K2 == <<"key_", "c3f0">>
A1 == <<"agent_", "ca2a">>
A2 == <<"agent_", "447a">>
S1 == <<"agent_", "6434">>
\* The credentials a test run leaves behind in localStorage.
TestKey == <<"test_key_", "1761">>
TestCallAgent == <<"test_call_agent_", "1761">>
TestSmsAgent == <<"test_sms_agent_", "1761">>

\* getCurrentTenantId() returns the constant tenant of this build.
getCurrentTenantId == "artlee"
TenantIds == {"artlee", "medex"}
UserIds == {"u1"}
NoUser == "no_user"

\* RetellCredentials of retellCredentials.ts, ApiKeys of apiKeyFallbackService.ts.
Creds(k, c, s) == [apiKey |-> k, callAgentId |-> c, smsAgentId |-> s]
ApiKeys(k, c, s) == [retell_api_key |-> k, call_agent_id |-> c, sms_agent_id |-> s]
NoKeys == ApiKeys(Absent, Absent, Absent)
ToCreds(a) == Creds(a.retell_api_key, a.call_agent_id, a.sms_agent_id)

HARDCODED_RETELL_CREDENTIALS == Creds(K1, A1, Absent)
HardcodedKeys == ApiKeys(K1, A1, Absent)

\* The credential sets a caller submits.
SaveInputs ==
    { ApiKeys(K1, A1, Absent), ApiKeys(K2, A2, S1), ApiKeys(K2, Absent, Absent) }

\* ------------------------------------------------------------------ codec
\* encryptionService: the cipher text carries the "cbc:" envelope.
encryptString(p) == <<"cbc:">> \o p
Decryptable(c) == Len(c) > 0 /\ Head(c) = "cbc:"
decryptString(c) == Tail(c)
Corrupt == <<"garbled">>

\* encryptedKeys: every field that is present goes through the codec.
Enc(v) == IF v = Absent THEN Absent ELSE encryptString(v)
EncryptedKeys(apiKeys) ==
    [retell_api_key |-> Enc(apiKeys.retell_api_key),
     call_agent_id |-> Enc(apiKeys.call_agent_id),
     sms_agent_id |-> Enc(apiKeys.sms_agent_id)]

\* ------------------------------------------------------------------ tables
NoRow == [none |-> TRUE]
AgentConfig(c, s) == [call_agent_id |-> c, sms_agent_id |-> s]
EmptyAgentConfig == AgentConfig(Absent, Absent)
ProfileRow(t, k, cfg) ==
    [tenant_id |-> t, encrypted_retell_api_key |-> k, encrypted_agent_config |-> cfg]
\* user_settings: retell_agent_config is written by storePartialInUserProfiles,
\* retell_config by storeInUserSettings; Null is the SQL NULL of a column.
Null == [null |-> TRUE]
RetellConfig(k, c, s) == [api_key |-> k, call_agent_id |-> c, sms_agent_id |-> s]
SettingsRow(acfg, rcfg) == [retell_agent_config |-> acfg, retell_config |-> rcfg]
NoItem == [none |-> TRUE]
\* localStorage settings_<userId>: the plain-text cache of the settings UI.
Settings(k, c, s) == [retellApiKey |-> k, callAgentId |-> c, smsAgentId |-> s]

VARIABLES
    user_profiles,     \* user_id -> row of table user_profiles (unique on user_id)
    user_settings,     \* <<user_id, tenant_id>> -> row of table user_settings
    apikeysLocal,      \* localStorage item apikeys_<userId>
    sessionBackup,     \* sessionStorage item retell_credentials_backup
    memoryBackup,      \* window.__retellCredentialsBackup
    emergencyLocal,    \* localStorage item __emergencyRetellCredentials
    justLoggedOut,     \* localStorage item justLoggedOut = 'true'
    savePc,            \* position of the running storeApiKeys call
    saveUser,          \* its userId argument
    saveKeys,          \* its apiKeys argument
    saveDetail,        \* per-tier outcome of the call
    saveResult,        \* overall outcome of the call
    saveWrote,         \* storage tiers the call has written so far
    saveTried,         \* the store methods the call has attempted, in order
    loadPc,            \* position of the running retrieveApiKeys call
    loadUser,          \* its userId argument
    loadKeys,          \* the ApiKeys it has assembled so far
    loadStatus,        \* status of the result it returned
    loadRead,          \* tiers the call has queried so far
    loadPrimary,       \* API key the call decrypted from user_profiles
    cloudRowsRead,     \* tenant ids of the cloud rows handed to a caller
    settingsLocal,     \* localStorage item settings_<userId>
    uiApiKeys,         \* apiKeys state of EnhancedApiKeyManager (setApiKeys)
    uiPc,              \* position of its loadApiKeys call
    opCount,           \* operations started
    initialized,       \* GlobalServiceInitializer.initialized
    initPromise,       \* GlobalServiceInitializer.initPromise: a run, or NoPromise
    runs,              \* run of performInitialization -> its position
    calls,             \* the initialize/forceReinitialize calls made, with results
    loaded,            \* run -> how its retellService.loadCredentialsAsync() settled
    save2Pc,           \* position of a second storeApiKeys call running alongside
    save2User,         \* its userId argument
    save2Keys,         \* its apiKeys argument
    candidate,         \* a RetellCredentials value handed to the predicates
    valid,             \* what validateCredentials returned for it
    testData,           \* what the test-credentials check returned for it
    stripe,            \* StripeInvoiceService.stripe is a client (not null)
    stripeIsInitialized, \* StripeInvoiceService.isInitialized
    invPc,             \* position of the running createInvoice call
    invOptions,        \* its options argument
    invoiceData,       \* its invoiceData
    invoiceId,         \* invoice.id of the draft it created, 0 before
    invTrace,          \* the Stripe requests it has made, in order
    invResult,         \* what the call gave its caller
    invCalls,          \* createInvoice calls so far
    stripeCustomers,   \* Stripe: the customers that exist
    stripeInvoices     \* Stripe: the invoices, by id

saveVars == <<savePc, saveUser, saveKeys, saveDetail, saveResult, saveWrote, saveTried>>
tierVars == <<user_profiles, user_settings, apikeysLocal, sessionBackup,
              memoryBackup, emergencyLocal>>
loadVars == <<loadPc, loadUser, loadKeys, loadStatus, loadRead, loadPrimary>>
uiVars == <<settingsLocal, uiApiKeys, uiPc>>
initVars == <<initialized, initPromise, runs, calls, loaded>>
save2Vars == <<save2Pc, save2User, save2Keys>>
\* What the actions of the first storeApiKeys call, of retrieveApiKeys, of the
\* settings UI and of the initializer all leave alone.
fnVars == <<candidate, valid, testData>>
\* State of what the credential service never touches.
invoiceVars == <<stripe, stripeIsInitialized, invPc, invOptions, invoiceData,
                 invoiceId, invTrace, invResult, invCalls, stripeCustomers,
                 stripeInvoices>>
extraVars == <<fnVars, invoiceVars>>
sideVars == <<save2Vars, extraVars>>
\* State of the credential service, its UI and the initializer.
serviceVars == <<tierVars, justLoggedOut, saveVars, loadVars, cloudRowsRead, uiVars,
                 opCount, initVars, save2Vars>>
vars == <<user_profiles, user_settings, apikeysLocal, sessionBackup,
          memoryBackup, emergencyLocal, justLoggedOut, savePc, saveUser,
          saveKeys, saveDetail, saveResult, saveWrote, saveTried, loadPc, loadUser,
          loadKeys, loadStatus, loadRead, loadPrimary, cloudRowsRead,
          settingsLocal, uiApiKeys, uiPc, opCount,
          initialized, initPromise, runs, calls, loaded,
          save2Pc, save2User, save2Keys, candidate, valid, testData,
          stripe, stripeIsInitialized, invPc, invOptions, invoiceData,
          invoiceId, invTrace, invResult, invCalls, stripeCustomers,
          stripeInvoices>>

SaveTiers == {"user_profiles", "partial", "user_settings", "localStorage"}
NoDetail == [t \in SaveTiers |-> "none"]

\* ------------------------------------------------------------------ upserts
\* supabase .upsert(row) on user_profiles: the row carries user_id but no
\* tenant_id.  With onConflict 'user_id' an existing row is updated in place;
\* without it the statement inserts and collides with user_profiles_user_id_key.
UpsertProfiles(tbl, userId, key, cfg, onConflict, dflt) ==
    IF tbl[userId] = NoRow
    THEN [tbl |-> [tbl EXCEPT ![userId] = ProfileRow(dflt, key, cfg)], error |-> "none"]
    ELSE IF onConflict = "user_id"
         THEN [tbl |-> [tbl EXCEPT ![userId] =
                          ProfileRow(tbl[userId].tenant_id, key, cfg)],
               error |-> "none"]
         ELSE [tbl |-> tbl, error |-> "409"]

\* storeInUserProfiles taking the call agent id from apikeys_<userId> when
\* that item has one.
storeInUserProfiles_local(tbl, userId, apiKeys, dflt) ==
    LET item == apikeysLocal[userId]
        call == IF item # NoItem /\ Decryptable(item.call_agent_id)
                THEN decryptString(item.call_agent_id)
                ELSE apiKeys.call_agent_id
    IN UpsertProfiles(tbl, userId, EncryptedKeys(apiKeys).retell_api_key,
                      AgentConfig(call, apiKeys.sms_agent_id), "user_id", dflt)

\* storeInUserProfiles after Fix 1.
storeInUserProfiles(tbl, userId, apiKeys, dflt) ==
    UpsertProfiles(tbl, userId, EncryptedKeys(apiKeys).retell_api_key,
                   AgentConfig(apiKeys.call_agent_id, apiKeys.sms_agent_id),
                   "user_id", dflt)

\* storePartialInUserProfiles, first write: the API key alone into the
\* caller's user_profiles row.
storePartialKey(tbl, userId, apiKeys) ==
    IF tbl[userId] # NoRow /\ tbl[userId].tenant_id = getCurrentTenantId
    THEN [tbl EXCEPT ![userId].encrypted_retell_api_key =
                         EncryptedKeys(apiKeys).retell_api_key]
    ELSE tbl

\* .upsert(row) on user_settings; the row carries user_id and tenant_id.
\* onConflict names the unique key to resolve on; "" is the plain .upsert(row),
\* which inserts and collides with an existing (user_id, tenant_id) row.
UpsertSettings(tbl, userId, tenantId, acfg, rcfg, onConflict) ==
    LET k == <<userId, tenantId>> IN
    IF tbl[k] = NoRow
    THEN [tbl |-> [tbl EXCEPT ![k] = SettingsRow(acfg, rcfg)], error |-> "none"]
    ELSE IF onConflict = "user_id,tenant_id"
         THEN [tbl |-> [tbl EXCEPT ![k] =
                   SettingsRow(IF acfg = Null THEN tbl[k].retell_agent_config ELSE acfg,
                               IF rcfg = Null THEN tbl[k].retell_config ELSE rcfg)],
               error |-> "none"]
         ELSE [tbl |-> tbl, error |-> "409"]

\* storePartialInUserProfiles, second write: the agent config into user_settings.
storePartialInUserProfiles(tbl, userId, apiKeys) ==
    UpsertSettings(tbl, userId, getCurrentTenantId,
                   AgentConfig(apiKeys.call_agent_id, apiKeys.sms_agent_id), Null, "")

\* storeInUserSettings through the RPC update_user_api_keys
\* (INSERT ... ON CONFLICT (user_id, tenant_id) DO UPDATE).
storeInUserSettings(tbl, userId, apiKeys) ==
    UpsertSettings(tbl, userId, getCurrentTenantId, Null,
                   RetellConfig(apiKeys.retell_api_key, apiKeys.call_agent_id,
                                apiKeys.sms_agent_id),
                   "user_id,tenant_id")

\* storeInLocalStorage returning before its setItem.
storeInLocalStorage_lost(store, userId, apiKeys) == store

\* storeInLocalStorage: localStorage.setItem('apikeys_<userId>', ...).
storeInLocalStorage(store, userId, apiKeys) ==
    [store EXCEPT ![userId] = EncryptedKeys(apiKeys)]

\* ------------------------------------------------------- browser backups
\* storeCredentialsEverywhere without the justLoggedOut test.
storeCredentialsEverywhere_unguarded(st, credentials, loggedOut, throwAt) ==
    IF throwAt = "session" THEN st
    ELSE IF throwAt = "emergency"
         THEN [st EXCEPT !.session = credentials, !.memory = credentials]
    ELSE [session |-> credentials, memory |-> credentials, emergency |-> credentials]

\* storeCredentialsEverywhere with a guarded block of its own around each write.
storeCredentialsEverywhere_separate(st, credentials, loggedOut, throwAt) ==
    IF loggedOut THEN st
    ELSE IF throwAt = "session"
         THEN [st EXCEPT !.memory = credentials, !.emergency = credentials]
    ELSE IF throwAt = "emergency"
         THEN [st EXCEPT !.session = credentials, !.memory = credentials]
    ELSE [session |-> credentials, memory |-> credentials, emergency |-> credentials]

\* storeCredentialsEverywhere without its assignment of the memory backup.
storeCredentialsEverywhere_nomemory(st, credentials, loggedOut, throwAt) ==
    IF loggedOut THEN st
    ELSE IF throwAt = "session" THEN st
    ELSE IF throwAt = "emergency" THEN [st EXCEPT !.session = credentials]
    ELSE [st EXCEPT !.session = credentials, !.emergency = credentials]

\* storeCredentialsEverywhere: one guarded block; throwAt is the setItem that
\* throws ("none" when none does).
storeCredentialsEverywhere(st, credentials, loggedOut, throwAt) ==
    IF loggedOut THEN st
    ELSE IF throwAt = "session" THEN st
    ELSE IF throwAt = "emergency"
         THEN [st EXCEPT !.session = credentials, !.memory = credentials]
    ELSE [session |-> credentials, memory |-> credentials, emergency |-> credentials]

Backups == [session |-> sessionBackup, memory |-> memoryBackup,
            emergency |-> emergencyLocal]

\* ------------------------------------------------------------ save path
\* storeApiKeys testing the logout flag only.
SaveRejected_anyUser(userId, loggedOut) == loggedOut

\* storeApiKeys testing the user id only.
SaveRejected_noFlag(userId, loggedOut) == userId = NoUser

\* storeApiKeys rejects a call without a user id, or after a logout.
SaveRejected(userId, loggedOut) == userId = NoUser \/ loggedOut

\* storeApiKeys running every method whatever the one before returned.
NextSaveStep_all(pc, ok) ==
    CASE pc = "user_profiles" -> "partialKey"
      [] pc = "partialKey"    -> "partialAgents"
      [] pc = "partialAgents" -> "user_settings"
      [] pc = "user_settings" -> "localStorage"
      [] pc = "localStorage"  -> "mirror"

\* storeApiKeys tries its methods in order and stops at the first success.
NextSaveStep(pc, ok) ==
    CASE pc = "user_profiles" -> IF ok THEN "mirror" ELSE "partialKey"
      [] pc = "partialKey"    -> IF ok THEN "partialAgents" ELSE "user_settings"
      [] pc = "partialAgents" -> IF ok THEN "mirror" ELSE "user_settings"
      [] pc = "user_settings" -> IF ok THEN "mirror" ELSE "localStorage"
      [] pc = "localStorage"  -> "mirror"

\* The call succeeded when one of its store methods did.
SaveOverall(detail) ==
    IF \E t \in SaveTiers : detail[t] = "success" THEN "success" ELSE "failed"

Status(ok) == IF ok THEN "success" ELSE "failed"

SaveStart(u, keys) ==
    /\ savePc \in {"idle", "returned"}
    /\ opCount < MaxOps
    /\ opCount' = opCount + 1
    /\ saveUser' = u
    /\ saveKeys' = keys
    /\ saveDetail' = NoDetail
    /\ saveWrote' = {}
    /\ saveTried' = << >>
    /\ IF SaveRejected(u, justLoggedOut)
       THEN savePc' = "returned" /\ saveResult' = "rejected"
       ELSE savePc' = "user_profiles" /\ saveResult' = "none"
    /\ UNCHANGED <<uiVars, initVars, sideVars>>
    /\ UNCHANGED <<tierVars, justLoggedOut, loadVars, cloudRowsRead>>

\* await storeInUserProfiles(...); fail is a request that errors (network,
\* schema cache), dflt the tenant_id an inserted row is given by the table.
SaveUserProfiles(fail, dflt) ==
    /\ savePc = "user_profiles"
    /\ LET r == IF fail THEN [tbl |-> user_profiles, error |-> "400"]
                ELSE storeInUserProfiles(user_profiles, saveUser, saveKeys, dflt)
           ok == r.error = "none"
       IN /\ user_profiles' = r.tbl
          /\ saveDetail' = [saveDetail EXCEPT !["user_profiles"] = Status(ok)]
          /\ saveWrote' = IF ok THEN saveWrote \cup {"user_profiles"} ELSE saveWrote
          /\ savePc' = NextSaveStep("user_profiles", ok)
    /\ saveTried' = Append(saveTried, "storeInUserProfiles")
    /\ UNCHANGED <<uiVars, initVars, sideVars>>
    /\ UNCHANGED <<user_settings, apikeysLocal, sessionBackup, memoryBackup,
                   emergencyLocal, justLoggedOut, saveUser, saveKeys, saveResult,
                   loadVars, cloudRowsRead, opCount>>

SavePartialKey(fail) ==
    /\ savePc = "partialKey"
    /\ user_profiles' = IF fail THEN user_profiles
                        ELSE storePartialKey(user_profiles, saveUser, saveKeys)
    /\ saveDetail' = IF fail THEN [saveDetail EXCEPT !["partial"] = "failed"]
                     ELSE saveDetail
    /\ saveWrote' = IF user_profiles' # user_profiles
                    THEN saveWrote \cup {"user_profiles"} ELSE saveWrote
    /\ savePc' = NextSaveStep("partialKey", ~fail)
    /\ saveTried' = Append(saveTried, "storePartialInUserProfiles")
    /\ UNCHANGED <<uiVars, initVars, sideVars>>
    /\ UNCHANGED <<user_settings, apikeysLocal, sessionBackup, memoryBackup,
                   emergencyLocal, justLoggedOut, saveUser, saveKeys, saveResult,
                   loadVars, cloudRowsRead, opCount>>

SavePartialAgents(fail) ==
    /\ savePc = "partialAgents"
    /\ LET r == IF fail THEN [tbl |-> user_settings, error |-> "400"]
                ELSE storePartialInUserProfiles(user_settings, saveUser, saveKeys)
           ok == r.error = "none"
       IN /\ user_settings' = r.tbl
          /\ saveDetail' = [saveDetail EXCEPT !["partial"] =
                               IF ok THEN "success" ELSE r.error]
          /\ saveWrote' = IF ok THEN saveWrote \cup {"user_settings"} ELSE saveWrote
          /\ savePc' = NextSaveStep("partialAgents", ok)
    /\ UNCHANGED <<uiVars, initVars, sideVars>>
    /\ UNCHANGED <<user_profiles, apikeysLocal, sessionBackup, memoryBackup,
                   emergencyLocal, justLoggedOut, saveUser, saveKeys, saveResult,
                   saveTried, loadVars, cloudRowsRead, opCount>>

SaveUserSettings(fail) ==
    /\ savePc = "user_settings"
    /\ LET r == IF fail THEN [tbl |-> user_settings, error |-> "400"]
                ELSE storeInUserSettings(user_settings, saveUser, saveKeys)
           ok == r.error = "none"
       IN /\ user_settings' = r.tbl
          /\ saveDetail' = [saveDetail EXCEPT !["user_settings"] = Status(ok)]
          /\ saveWrote' = IF ok THEN saveWrote \cup {"user_settings"} ELSE saveWrote
          /\ savePc' = NextSaveStep("user_settings", ok)
    /\ saveTried' = Append(saveTried, "storeInUserSettings")
    /\ UNCHANGED <<uiVars, initVars, sideVars>>
    /\ UNCHANGED <<user_profiles, apikeysLocal, sessionBackup, memoryBackup,
                   emergencyLocal, justLoggedOut, saveUser, saveKeys, saveResult,
                   loadVars, cloudRowsRead, opCount>>

\* storeInLocalStorage; fail is a setItem that throws (quota, private mode).
SaveLocalStorage(fail) ==
    /\ savePc = "localStorage"
    /\ apikeysLocal' = IF fail THEN apikeysLocal
                       ELSE storeInLocalStorage(apikeysLocal, saveUser, saveKeys)
    /\ saveDetail' = [saveDetail EXCEPT !["localStorage"] = Status(~fail)]
    /\ saveWrote' = IF fail THEN saveWrote ELSE saveWrote \cup {"localStorage"}
    /\ savePc' = NextSaveStep("localStorage", ~fail)
    /\ saveTried' = Append(saveTried, "storeInLocalStorage")
    /\ UNCHANGED <<uiVars, initVars, sideVars>>
    /\ UNCHANGED <<user_profiles, user_settings, sessionBackup, memoryBackup,
                   emergencyLocal, justLoggedOut, saveUser, saveKeys, saveResult,
                   loadVars, cloudRowsRead, opCount>>

\* The browser backups are refreshed and the call returns its result.
SaveMirror(throwAt) ==
    /\ savePc = "mirror"
    /\ LET st == storeCredentialsEverywhere(Backups, ToCreds(saveKeys),
                                            justLoggedOut, throwAt)
       IN /\ sessionBackup' = st.session
          /\ memoryBackup' = st.memory
          /\ emergencyLocal' = st.emergency
          /\ saveWrote' = saveWrote
                \cup (IF st.session # sessionBackup THEN {"session"} ELSE {})
                \cup (IF st.memory # memoryBackup THEN {"memory"} ELSE {})
                \cup (IF st.emergency # emergencyLocal THEN {"emergency"} ELSE {})
    /\ saveResult' = SaveOverall(saveDetail)
    /\ savePc' = "returned"
    /\ UNCHANGED <<uiVars, initVars, sideVars>>
    /\ UNCHANGED <<user_profiles, user_settings, apikeysLocal, justLoggedOut,
                   saveUser, saveKeys, saveDetail, saveTried, loadVars,
                   cloudRowsRead, opCount>>

\* ------------------------------------------- a second storeApiKeys call
\* The same method run by another caller (another tab, another component)
\* while the first call is suspended at one of its awaits.
Save2Init ==
    /\ save2Pc = "idle"
    /\ save2User = NoUser
    /\ save2Keys = NoKeys

Save2Start(u, keys) ==
    /\ save2Pc = "idle"
    /\ savePc \notin {"idle", "returned"}
    /\ save2User' = u
    /\ save2Keys' = keys
    /\ save2Pc' = IF SaveRejected(u, justLoggedOut) THEN "returned" ELSE "user_profiles"
    /\ UNCHANGED <<tierVars, justLoggedOut, saveVars, loadVars, cloudRowsRead,
                   uiVars, opCount, initVars, extraVars>>

Save2UserProfiles(fail, dflt) ==
    /\ save2Pc = "user_profiles"
    /\ LET r == IF fail THEN [tbl |-> user_profiles, error |-> "400"]
                ELSE storeInUserProfiles(user_profiles, save2User, save2Keys, dflt)
       IN /\ user_profiles' = r.tbl
          /\ save2Pc' = NextSaveStep("user_profiles", r.error = "none")
    /\ UNCHANGED <<user_settings, apikeysLocal, sessionBackup, memoryBackup,
                   emergencyLocal, justLoggedOut, saveVars, loadVars, cloudRowsRead,
                   uiVars, opCount, initVars, save2User, save2Keys, extraVars>>

Save2PartialKey(fail) ==
    /\ save2Pc = "partialKey"
    /\ user_profiles' = IF fail THEN user_profiles
                        ELSE storePartialKey(user_profiles, save2User, save2Keys)
    /\ save2Pc' = NextSaveStep("partialKey", ~fail)
    /\ UNCHANGED <<user_settings, apikeysLocal, sessionBackup, memoryBackup,
                   emergencyLocal, justLoggedOut, saveVars, loadVars, cloudRowsRead,
                   uiVars, opCount, initVars, save2User, save2Keys, extraVars>>

Save2PartialAgents(fail) ==
    /\ save2Pc = "partialAgents"
    /\ LET r == IF fail THEN [tbl |-> user_settings, error |-> "400"]
                ELSE storePartialInUserProfiles(user_settings, save2User, save2Keys)
       IN /\ user_settings' = r.tbl
          /\ save2Pc' = NextSaveStep("partialAgents", r.error = "none")
    /\ UNCHANGED <<user_profiles, apikeysLocal, sessionBackup, memoryBackup,
                   emergencyLocal, justLoggedOut, saveVars, loadVars, cloudRowsRead,
                   uiVars, opCount, initVars, save2User, save2Keys, extraVars>>

Save2UserSettings(fail) ==
    /\ save2Pc = "user_settings"
    /\ LET r == IF fail THEN [tbl |-> user_settings, error |-> "400"]
                ELSE storeInUserSettings(user_settings, save2User, save2Keys)
       IN /\ user_settings' = r.tbl
          /\ save2Pc' = NextSaveStep("user_settings", r.error = "none")
    /\ UNCHANGED <<user_profiles, apikeysLocal, sessionBackup, memoryBackup,
                   emergencyLocal, justLoggedOut, saveVars, loadVars, cloudRowsRead,
                   uiVars, opCount, initVars, save2User, save2Keys, extraVars>>

Save2LocalStorage(fail) ==
    /\ save2Pc = "localStorage"
    /\ apikeysLocal' = IF fail THEN apikeysLocal
                       ELSE storeInLocalStorage(apikeysLocal, save2User, save2Keys)
    /\ save2Pc' = NextSaveStep("localStorage", ~fail)
    /\ UNCHANGED <<user_profiles, user_settings, sessionBackup, memoryBackup,
                   emergencyLocal, justLoggedOut, saveVars, loadVars, cloudRowsRead,
                   uiVars, opCount, initVars, save2User, save2Keys, extraVars>>

Save2Mirror(throwAt) ==
    /\ save2Pc = "mirror"
    /\ LET st == storeCredentialsEverywhere(Backups, ToCreds(save2Keys),
                                            justLoggedOut, throwAt)
       IN /\ sessionBackup' = st.session
          /\ memoryBackup' = st.memory
          /\ emergencyLocal' = st.emergency
    /\ save2Pc' = "returned"
    /\ UNCHANGED <<user_profiles, user_settings, apikeysLocal, justLoggedOut,
                   saveVars, loadVars, cloudRowsRead, uiVars, opCount, initVars,
                   save2User, save2Keys, extraVars>>

\* ------------------------------------------------------------ read path
Ok(data) == [status |-> "success", data |-> data]
Err == [status |-> "error", data |-> NoKeys]

\* retrieveFromLocalStorage: localStorage.getItem('apikeys_<userId>'), fields
\* decoded; a missing or undecodable item is an error result.
Dec(v) == IF v = Absent THEN Absent ELSE decryptString(v)
Readable(v) == v = Absent \/ Decryptable(v)
retrieveFromLocalStorage(store, userId) ==
    LET item == store[userId] IN
    IF item = NoItem THEN Err
    ELSE IF ~(Readable(item.retell_api_key) /\ Readable(item.call_agent_id)
              /\ Readable(item.sms_agent_id)) THEN Err
    ELSE Ok(ApiKeys(Dec(item.retell_api_key), Dec(item.call_agent_id),
                    Dec(item.sms_agent_id)))

\* supabase.from('user_profiles').select(...).eq('user_id', userId)
\*   .eq('tenant_id', getCurrentTenantId()).single()
QueryUserProfiles(tbl, userId, fail) ==
    IF ~fail /\ tbl[userId] # NoRow /\ tbl[userId].tenant_id = getCurrentTenantId
    THEN [error |-> "none", data |-> tbl[userId], tenant |-> tbl[userId].tenant_id]
    ELSE [error |-> "query", data |-> NoRow, tenant |-> "none"]

\* supabase.from('user_settings').select(...).eq('user_id', userId)
\*   .eq('tenant_id', getCurrentTenantId()).single()
QueryUserSettings(tbl, userId, fail) ==
    IF ~fail /\ tbl[<<userId, getCurrentTenantId>>] # NoRow
    THEN [error |-> "none", data |-> tbl[<<userId, getCurrentTenantId>>],
          tenant |-> getCurrentTenantId]
    ELSE [error |-> "query", data |-> NoRow, tenant |-> "none"]

\* retrieveFromUserProfiles with decryptString outside its try block.
retrieveFromUserProfiles_uncaught(q) ==
    IF q.error # "none" THEN [next |-> "catch", data |-> NoKeys]
    ELSE IF ~Readable(q.data.encrypted_retell_api_key)
         THEN [next |-> "threw", data |-> NoKeys]
    ELSE LET key == Dec(q.data.encrypted_retell_api_key)
             agentConfig == q.data.encrypted_agent_config
         IN IF agentConfig.call_agent_id = Absent /\ agentConfig.sms_agent_id = Absent
            THEN [next |-> "local", data |-> ApiKeys(key, Absent, Absent)]
            ELSE [next |-> "success",
                  data |-> ApiKeys(key, agentConfig.call_agent_id,
                                   agentConfig.sms_agent_id)]

\* retrieveFromUserProfiles (Fix 3), up to the agent-config test: where the
\* method goes next and the ApiKeys it holds.  "catch" is the catch branch
\* (query error or decryptString throwing), "local" the empty agent config.
retrieveFromUserProfiles(q) ==
    IF q.error # "none" THEN [next |-> "catch", data |-> NoKeys]
    ELSE IF ~Readable(q.data.encrypted_retell_api_key)
         THEN [next |-> "catch", data |-> NoKeys]
    ELSE LET key == Dec(q.data.encrypted_retell_api_key)
             agentConfig == q.data.encrypted_agent_config
             hasCallAgent == agentConfig.call_agent_id # Absent
             hasSmsAgent == agentConfig.sms_agent_id # Absent
         IN IF ~hasCallAgent /\ ~hasSmsAgent
            THEN [next |-> "local", data |-> ApiKeys(key, Absent, Absent)]
            ELSE [next |-> "success",
                  data |-> ApiKeys(key, agentConfig.call_agent_id,
                                   agentConfig.sms_agent_id)]

\* retrieveFromUserProfiles before Fix 3: the empty agent config is the answer.
MergeLocalAgentIds_none(apiKeys, localStorageResult) == apiKeys

\* The merge taking every field localStorage has, the API key included.
MergeLocalAgentIds_all(apiKeys, localStorageResult) ==
    IF localStorageResult.status = "success"
    THEN [apiKeys EXCEPT
            !.retell_api_key = IF localStorageResult.data.retell_api_key # Absent
                               THEN localStorageResult.data.retell_api_key ELSE @,
            !.call_agent_id = IF localStorageResult.data.call_agent_id # Absent
                              THEN localStorageResult.data.call_agent_id ELSE @,
            !.sms_agent_id = IF localStorageResult.data.sms_agent_id # Absent
                             THEN localStorageResult.data.sms_agent_id ELSE @]
    ELSE apiKeys

\* Fix 3: agent ids found in localStorage are merged with the database API key.
MergeLocalAgentIds(apiKeys, localStorageResult) ==
    IF localStorageResult.status = "success"
    THEN [apiKeys EXCEPT
            !.call_agent_id = IF localStorageResult.data.call_agent_id # Absent
                              THEN localStorageResult.data.call_agent_id ELSE @,
            !.sms_agent_id = IF localStorageResult.data.sms_agent_id # Absent
                             THEN localStorageResult.data.sms_agent_id ELSE @]
    ELSE apiKeys

\* The catch branch before Fix 3: the error is returned at once.
CatchFallback_error(localStorageResult) == Err

\* The catch branch of retrieveFromUserProfiles: localStorage, else the error.
CatchFallback(localStorageResult) ==
    IF localStorageResult.status = "success" THEN localStorageResult ELSE Err

\* retrievePartialFromUserProfiles: API key from user_profiles, agent config
\* from user_settings.
retrievePartialFromUserProfiles(qp, qs) ==
    IF qp.error # "none" \/ ~Readable(qp.data.encrypted_retell_api_key) THEN Err
    ELSE LET key == Dec(qp.data.encrypted_retell_api_key)
             cfg == IF qs.error = "none" /\ qs.data.retell_agent_config # Null
                    THEN qs.data.retell_agent_config ELSE EmptyAgentConfig
         IN IF key = Absent THEN Err
            ELSE Ok(ApiKeys(key, cfg.call_agent_id, cfg.sms_agent_id))

\* retrieveFromUserSettings: the keys of retell_config.
retrieveFromUserSettings(q) ==
    IF q.error # "none" \/ q.data.retell_config = Null THEN Err
    ELSE Ok(ApiKeys(q.data.retell_config.api_key, q.data.retell_config.call_agent_id,
                    q.data.retell_config.sms_agent_id))

\* retrieveApiKeys tries its methods in order and returns the first success.
NextLoadStep(pc, status) ==
    IF status = "success" THEN "returned"
    ELSE CASE pc = "user_profiles" -> "partial"
           [] pc = "partial"       -> "user_settings"
           [] pc = "user_settings" -> "localStorage"
           [] pc = "localStorage"  -> "returned"

LoadStart(u) ==
    /\ loadPc \in {"idle", "returned"}
    /\ uiPc # "loading"
    /\ opCount < MaxOps
    /\ opCount' = opCount + 1
    /\ loadPc' = "user_profiles"
    /\ loadUser' = u
    /\ loadKeys' = NoKeys
    /\ loadStatus' = "none"
    /\ loadRead' = {}
    /\ loadPrimary' = Absent
    /\ UNCHANGED <<uiVars, initVars, sideVars>>
    /\ UNCHANGED <<tierVars, justLoggedOut, saveVars, cloudRowsRead>>

RowsRead(q) == IF q.error = "none" THEN {q.tenant} ELSE {}

\* The API key a user_profiles query yielded, Absent when it yielded none.
KeyYielded(q) ==
    IF q.error = "none" /\ Decryptable(q.data.encrypted_retell_api_key)
    THEN decryptString(q.data.encrypted_retell_api_key) ELSE Absent

\* retrieveFromUserProfiles: the query and the decryption.
LoadUserProfiles(fail) ==
    /\ loadPc = "user_profiles"
    /\ LET q == QueryUserProfiles(user_profiles, loadUser, fail)
           r == retrieveFromUserProfiles(q)
       IN /\ loadKeys' = r.data
          /\ loadPrimary' = KeyYielded(q)
          /\ cloudRowsRead' = cloudRowsRead \cup RowsRead(q)
          /\ loadStatus' = IF r.next = "success" THEN "success" ELSE "none"
          /\ loadPc' = CASE r.next = "success" -> NextLoadStep("user_profiles", "success")
                         [] r.next = "local"   -> "profilesLocal"
                         [] r.next = "catch"   -> "profilesCatch"
                         [] OTHER              -> "threw"
    /\ loadRead' = loadRead \cup {"user_profiles"}
    /\ UNCHANGED <<uiVars, initVars, sideVars>>
    /\ UNCHANGED <<tierVars, justLoggedOut, saveVars, loadUser, opCount>>

\* retrieveFromUserProfiles: the localStorage fallback for an empty agent config.
LoadProfilesLocal ==
    /\ loadPc = "profilesLocal"
    /\ loadKeys' = MergeLocalAgentIds(loadKeys,
                       retrieveFromLocalStorage(apikeysLocal, loadUser))
    /\ loadStatus' = "success"
    /\ loadPc' = NextLoadStep("user_profiles", "success")
    /\ loadRead' = loadRead \cup {"localStorage"}
    /\ UNCHANGED <<uiVars, initVars, sideVars>>
    /\ UNCHANGED <<tierVars, justLoggedOut, saveVars, loadUser, loadPrimary,
                   cloudRowsRead, opCount>>

\* The catch branch storing what it found in localStorage back into
\* user_profiles.
LoadProfilesCatch_writeBack ==
    /\ loadPc = "profilesCatch"
    /\ LET r == CatchFallback(retrieveFromLocalStorage(apikeysLocal, loadUser))
       IN /\ loadKeys' = r.data
          /\ loadStatus' = IF r.status = "success" THEN "success" ELSE "none"
          /\ loadPc' = NextLoadStep("user_profiles", r.status)
          /\ user_profiles' =
                IF r.status = "success"
                THEN storeInUserProfiles(user_profiles, loadUser, r.data,
                                         getCurrentTenantId).tbl
                ELSE user_profiles
    /\ loadRead' = loadRead \cup {"localStorage"}
    /\ UNCHANGED <<uiVars, initVars, sideVars>>
    /\ UNCHANGED <<user_settings, apikeysLocal, sessionBackup, memoryBackup,
                   emergencyLocal, justLoggedOut, saveVars, loadUser, loadPrimary,
                   cloudRowsRead, opCount>>

\* retrieveFromUserProfiles: the catch branch.
LoadProfilesCatch ==
    /\ loadPc = "profilesCatch"
    /\ LET r == CatchFallback(retrieveFromLocalStorage(apikeysLocal, loadUser))
       IN /\ loadKeys' = r.data
          /\ loadStatus' = IF r.status = "success" THEN "success" ELSE "none"
          /\ loadPc' = NextLoadStep("user_profiles", r.status)
    /\ loadRead' = loadRead \cup {"localStorage"}
    /\ UNCHANGED <<uiVars, initVars, sideVars>>
    /\ UNCHANGED <<tierVars, justLoggedOut, saveVars, loadUser, loadPrimary,
                   cloudRowsRead, opCount>>

LoadPartial(failP, failS) ==
    /\ loadPc = "partial"
    /\ LET qp == QueryUserProfiles(user_profiles, loadUser, failP)
           qs == QueryUserSettings(user_settings, loadUser, failS)
           r == retrievePartialFromUserProfiles(qp, qs)
       IN /\ loadKeys' = r.data
          /\ loadPrimary' = KeyYielded(qp)
          /\ cloudRowsRead' = cloudRowsRead \cup RowsRead(qp) \cup RowsRead(qs)
          /\ loadStatus' = IF r.status = "success" THEN "success" ELSE "none"
          /\ loadPc' = NextLoadStep("partial", r.status)
    /\ loadRead' = loadRead \cup {"user_profiles", "user_settings"}
    /\ UNCHANGED <<uiVars, initVars, sideVars>>
    /\ UNCHANGED <<tierVars, justLoggedOut, saveVars, loadUser, opCount>>

LoadUserSettings(fail) ==
    /\ loadPc = "user_settings"
    /\ LET q == QueryUserSettings(user_settings, loadUser, fail)
           r == retrieveFromUserSettings(q)
       IN /\ loadKeys' = r.data
          /\ cloudRowsRead' = cloudRowsRead \cup RowsRead(q)
          /\ loadStatus' = IF r.status = "success" THEN "success" ELSE "none"
          /\ loadPc' = NextLoadStep("user_settings", r.status)
    /\ loadRead' = loadRead \cup {"user_settings"}
    /\ UNCHANGED <<uiVars, initVars, sideVars>>
    /\ UNCHANGED <<tierVars, justLoggedOut, saveVars, loadUser, loadPrimary, opCount>>

LoadLocalStorage ==
    /\ loadPc = "localStorage"
    /\ LET r == retrieveFromLocalStorage(apikeysLocal, loadUser)
       IN /\ loadKeys' = r.data
          /\ loadStatus' = r.status
          /\ loadPc' = NextLoadStep("localStorage", r.status)
    /\ loadRead' = loadRead \cup {"localStorage"}
    /\ UNCHANGED <<uiVars, initVars, sideVars>>
    /\ UNCHANGED <<tierVars, justLoggedOut, saveVars, loadUser, loadPrimary,
                   cloudRowsRead, opCount>>

\* ------------------------------------------------------- the settings UI
startsWith(s, prefix) == Len(s) > 0 /\ Head(s) = prefix
includes(s, token) == \E i \in 1..Len(s) : s[i] = token

isTestCredentials(settings) ==
    \/ startsWith(settings.retellApiKey, "test_key_")
    \/ (settings.callAgentId # Absent
          /\ startsWith(settings.callAgentId, "test_call_agent_"))
    \/ (settings.smsAgentId # Absent
          /\ startsWith(settings.smsAgentId, "test_sms_agent_"))

\* loadApiKeys: a plain-text API key in settings_<userId> that is not a test
\* credential is used as it is; anything else is loaded from Supabase.
shouldLoadFromSupabase(settings) ==
    IF settings # NoItem /\ settings.retellApiKey # Absent
          /\ ~includes(settings.retellApiKey, "cbc:")
    THEN isTestCredentials(settings)
    ELSE TRUE

\* loadApiKeys of EnhancedApiKeyManager, up to its call of the service.
LoadApiKeys(u) ==
    /\ loadPc \in {"idle", "returned"}
    /\ uiPc # "loading"
    /\ opCount < MaxOps
    /\ opCount' = opCount + 1
    /\ IF shouldLoadFromSupabase(settingsLocal[u])
       THEN /\ uiPc' = "loading"
            /\ uiApiKeys' = uiApiKeys
            /\ loadPc' = "user_profiles"
            /\ loadUser' = u
            /\ loadKeys' = NoKeys
            /\ loadStatus' = "none"
            /\ loadRead' = {}
            /\ loadPrimary' = Absent
       ELSE /\ uiPc' = "cached"
            /\ uiApiKeys' = ApiKeys(settingsLocal[u].retellApiKey,
                                    settingsLocal[u].callAgentId,
                                    settingsLocal[u].smsAgentId)
            /\ UNCHANGED loadVars
    /\ UNCHANGED <<tierVars, justLoggedOut, saveVars, cloudRowsRead, settingsLocal,
                   initVars, sideVars>>

\* loadApiKeys after the service returned: the keys loaded go into the
\* component state and into the settings_<userId> cache.
LoadApiKeysLoaded ==
    /\ uiPc = "loading"
    /\ loadPc = "returned"
    /\ uiPc' = "loaded"
    /\ IF loadStatus = "success"
       THEN /\ uiApiKeys' = loadKeys
            /\ settingsLocal' = [settingsLocal EXCEPT ![loadUser] =
                                   Settings(loadKeys.retell_api_key,
                                            loadKeys.call_agent_id,
                                            loadKeys.sms_agent_id)]
       ELSE UNCHANGED <<uiApiKeys, settingsLocal>>
    /\ UNCHANGED <<tierVars, justLoggedOut, saveVars, loadVars, cloudRowsRead, opCount,
                   initVars, sideVars>>

\* ------------------------------------------------------------ the browser
\* The logout handler sets localStorage justLoggedOut = 'true'.
Logout ==
    /\ ~justLoggedOut
    /\ opCount < MaxOps
    /\ opCount' = opCount + 1
    /\ justLoggedOut' = TRUE
    /\ UNCHANGED <<uiVars, initVars, sideVars>>
    /\ UNCHANGED <<tierVars, saveVars, loadVars, cloudRowsRead>>

getBulletproofCredentials == HARDCODED_RETELL_CREDENTIALS

\* initializeCredentialPersistence, run from the module's start-up timer.
initializeCredentialPersistence(st, loggedOut, throwAt) ==
    IF loggedOut THEN st
    ELSE storeCredentialsEverywhere(st, getBulletproofCredentials, loggedOut, throwAt)

InitializeCredentialPersistence(throwAt) ==
    /\ opCount < MaxOps
    /\ opCount' = opCount + 1
    /\ LET st == initializeCredentialPersistence(Backups, justLoggedOut, throwAt)
       IN /\ sessionBackup' = st.session
          /\ memoryBackup' = st.memory
          /\ emergencyLocal' = st.emergency
    /\ UNCHANGED <<uiVars, initVars, sideVars>>
    /\ UNCHANGED <<user_profiles, user_settings, apikeysLocal, justLoggedOut,
                   saveVars, loadVars, cloudRowsRead>>

\* ------------------------------------------- GlobalServiceInitializer
\* Runs of performInitialization are numbered in the order they start; the
\* promise a run returns is named by the run's number.
MaxRuns == 3
MaxCalls == 4
RunIds == 1..MaxRuns
NoPromise == 0
\* Positions of a run: "none" (not started), suspended at one of its two
\* awaits, "fulfilled" or "rejected".
InFlight(rs) == { r \in RunIds : rs[r] \in {"loadCredentialsAsync", "syncWithRetellService"} }
Started(rs) == { r \in RunIds : rs[r] # "none" }
NextRunId(rs) == Cardinality(Started(rs)) + 1

InitializerState == [initialized |-> initialized, initPromise |-> initPromise, runs |-> runs]

\* performInitialization up to its first await.
performInitialization(st) ==
    LET id == NextRunId(st.runs)
    IN [st |-> [st EXCEPT !.runs[id] = "loadCredentialsAsync"], promise |-> id]

initialize_unmemoized(st) ==
    IF st.initialized THEN [st |-> st, promise |-> NoPromise]
    ELSE LET p == performInitialization(st)
         IN [st |-> [p.st EXCEPT !.initPromise = p.promise], promise |-> p.promise]

initialize(st) ==
    IF st.initialized THEN [st |-> st, promise |-> NoPromise]
    ELSE IF st.initPromise # NoPromise THEN [st |-> st, promise |-> st.initPromise]
    ELSE LET p == performInitialization(st)
         IN [st |-> [p.st EXCEPT !.initPromise = p.promise], promise |-> p.promise]

forceReinitialize(st) ==
    initialize([st EXCEPT !.initialized = FALSE, !.initPromise = NoPromise])

isInitialized == initialized
\* getStatus: the initialized field of what it returns.
getStatus(threw) == IF threw THEN FALSE ELSE initialized

\* A call that would start a run beyond MaxRuns is left out.
CanCall(r) == r.promise \in RunIds \cup {NoPromise}

Initialize ==
    /\ Len(calls) < MaxCalls
    /\ LET r == initialize(InitializerState)
       IN /\ CanCall(r)
          /\ initialized' = r.st.initialized
          /\ initPromise' = r.st.initPromise
          /\ runs' = r.st.runs
          /\ calls' = Append(calls, [op |-> "initialize", promise |-> r.promise])
    /\ UNCHANGED loaded
    /\ UNCHANGED <<tierVars, justLoggedOut, saveVars, loadVars, cloudRowsRead,
                   uiVars, opCount, sideVars>>

ForceReinitialize ==
    /\ Len(calls) < MaxCalls
    /\ LET r == forceReinitialize(InitializerState)
       IN /\ CanCall(r)
          /\ initialized' = r.st.initialized
          /\ initPromise' = r.st.initPromise
          /\ runs' = r.st.runs
          /\ calls' = Append(calls, [op |-> "forceReinitialize", promise |-> r.promise])
    /\ UNCHANGED loaded
    /\ UNCHANGED <<tierVars, justLoggedOut, saveVars, loadVars, cloudRowsRead,
                   uiVars, opCount, sideVars>>

\* LoadCredentialsSettled without the inner catch: a rejection ends the run.
LoadCredentialsSettled_fatal(r, ok) ==
    /\ runs[r] = "loadCredentialsAsync"
    /\ runs' = [runs EXCEPT ![r] = IF ok THEN "syncWithRetellService" ELSE "rejected"]
    /\ loaded' = [loaded EXCEPT ![r] = IF ok THEN "resolved" ELSE "rejected"]
    /\ UNCHANGED <<initialized, initPromise, calls>>
    /\ UNCHANGED <<tierVars, justLoggedOut, saveVars, loadVars, cloudRowsRead,
                   uiVars, opCount, sideVars>>

\* retellService.loadCredentialsAsync() settles; a rejection is caught and
\* the run goes on.
LoadCredentialsSettled(r, ok) ==
    /\ runs[r] = "loadCredentialsAsync"
    /\ runs' = [runs EXCEPT ![r] = "syncWithRetellService"]
    /\ loaded' = [loaded EXCEPT ![r] = IF ok THEN "resolved" ELSE "rejected"]
    /\ UNCHANGED <<initialized, initPromise, calls>>
    /\ UNCHANGED <<tierVars, justLoggedOut, saveVars, loadVars, cloudRowsRead,
                   uiVars, opCount, sideVars>>

\* SyncSettled forgetting the promise of a run that rejects.
SyncSettled_forget(r, ok) ==
    /\ runs[r] = "syncWithRetellService"
    /\ IF ok
       THEN /\ initialized' = TRUE
            /\ runs' = [runs EXCEPT ![r] = "fulfilled"]
            /\ initPromise' = initPromise
       ELSE /\ initialized' = initialized
            /\ runs' = [runs EXCEPT ![r] = "rejected"]
            /\ initPromise' = IF initPromise = r THEN NoPromise ELSE initPromise
    /\ UNCHANGED <<calls, loaded>>
    /\ UNCHANGED <<tierVars, justLoggedOut, saveVars, loadVars, cloudRowsRead,
                   uiVars, opCount, sideVars>>

\* chatService.syncWithRetellService() settles; the run sets the flag and
\* fulfils, or rethrows and rejects.
SyncSettled(r, ok) ==
    /\ runs[r] = "syncWithRetellService"
    /\ IF ok
       THEN /\ initialized' = TRUE
            /\ runs' = [runs EXCEPT ![r] = "fulfilled"]
       ELSE /\ initialized' = initialized
            /\ runs' = [runs EXCEPT ![r] = "rejected"]
    /\ UNCHANGED <<initPromise, calls, loaded>>
    /\ UNCHANGED <<tierVars, justLoggedOut, saveVars, loadVars, cloudRowsRead,
                   uiVars, opCount, sideVars>>

InitializerInit ==
    /\ initialized = FALSE
    /\ initPromise = NoPromise
    /\ runs = [r \in RunIds |-> "none"]
    /\ calls = << >>
    /\ loaded = [r \in RunIds |-> "none"]

\* ------------------------------------------------- credential predicates
\* validateCredentials without the shortcut for empty credentials.
validateCredentials_strict(c) ==
    LET hasValidApiKey == c.apiKey # Absent /\ startsWith(c.apiKey, "key_")
        hasValidCallAgent == c.callAgentId # Absent /\ startsWith(c.callAgentId, "agent_")
        hasValidSmsAgent == c.smsAgentId = Absent \/ startsWith(c.smsAgentId, "agent_")
    IN hasValidApiKey /\ hasValidCallAgent /\ hasValidSmsAgent

\* validateCredentials without the test of the sms agent id.
validateCredentials_nosms(c) ==
    IF c.apiKey = Absent /\ c.callAgentId = Absent /\ c.smsAgentId = Absent THEN TRUE
    ELSE LET hasValidApiKey == c.apiKey # Absent /\ startsWith(c.apiKey, "key_")
             hasValidCallAgent ==
                 c.callAgentId # Absent /\ startsWith(c.callAgentId, "agent_")
         IN hasValidApiKey /\ hasValidCallAgent

\* validateCredentials; Absent stands for a field that is undefined or ''.
validateCredentials(c) ==
    IF c.apiKey = Absent /\ c.callAgentId = Absent /\ c.smsAgentId = Absent THEN TRUE
    ELSE LET hasValidApiKey == c.apiKey # Absent /\ startsWith(c.apiKey, "key_")
             hasValidCallAgent ==
                 c.callAgentId # Absent /\ startsWith(c.callAgentId, "agent_")
             hasValidSmsAgent ==
                 c.smsAgentId = Absent \/ startsWith(c.smsAgentId, "agent_")
         IN hasValidApiKey /\ hasValidCallAgent /\ hasValidSmsAgent

Verdict(b) == IF b THEN "true" ELSE "false"

\* The credentials the predicates are tried on: every field absent, well
\* formed, carrying the prefix of another field, or carrying a test prefix.
CredentialCandidates ==
    { Creds(k, c, s) : k \in {Absent, K1, A1, TestKey},
                        c \in {Absent, A1, K1, TestCallAgent},
                        s \in {Absent, S1, K1, TestSmsAgent} }

FnInit ==
    /\ candidate = Creds(Absent, Absent, Absent)
    /\ valid = "none"
    /\ testData = "none"

ValidateCredentials ==
    /\ valid = "none"
    /\ valid' = Verdict(validateCredentials(candidate))
    /\ UNCHANGED <<serviceVars, candidate, testData, invoiceVars>>

IsTestCredentials ==
    /\ testData = "none"
    /\ testData' = Verdict(isTestCredentials(Settings(candidate.apiKey,
                                                       candidate.callAgentId,
                                                       candidate.smsAgentId)))
    /\ UNCHANGED <<serviceVars, candidate, valid, invoiceVars>>

\* ------------------------------------------------- StripeInvoiceService
MaxInvoiceCalls == 2

\* Amounts in cents.
NoMetrics == [none |-> TRUE]
InvoiceMetrics ==
    [totalCalls : 0..1, callCostCAD : {-300, 0, 300},
     totalChats : 0..1, smsCostCAD : {0, 300}]
InvoiceOptions ==
    [preCalculatedMetrics : InvoiceMetrics \cup {NoMetrics}, sendImmediately : BOOLEAN]
NoOptions == [none |-> TRUE]
NoInvoiceData == [none |-> TRUE]
TheCustomer == "cus_1"

\* One consolidated line item when there was anything to count.
LineItems(count, totalCostCAD) ==
    IF count > 0 THEN << [amount_total |-> totalCostCAD] >> ELSE << >>

\* The InvoiceData built from pre-calculated metrics, and by
\* calculateInvoiceData from the calls and chats of the date range.
InvoiceDataOf(m) ==
    [callItems |-> LineItems(m.totalCalls, m.callCostCAD),
     smsItems |-> LineItems(m.totalChats, m.smsCostCAD),
     combinedTotal |-> m.callCostCAD + m.smsCostCAD]

isConfigured == stripeIsInitialized /\ stripe

\* Where createInvoice goes once the draft exists, and after each loop.
AfterItems(options) ==
    IF options.sendImmediately THEN "finalizeInvoice" ELSE "auditCreated"
AfterCallItems(data, options) ==
    IF Len(data.smsItems) > 0 THEN "smsItems" ELSE AfterItems(options)
AfterDraft(data, options) ==
    IF Len(data.callItems) > 0 THEN "callItems" ELSE AfterCallItems(data, options)

\* The check for charges made once invoiceData is known.
AfterInvoiceData(data) ==
    IF data.combinedTotal <= 0 THEN "returned" ELSE "getOrCreateCustomer"

\* The catch block of createInvoice: the audit event is awaited before the
\* failure result is returned, so its rejection leaves createInvoice.
catchResult(auditFailed) == IF auditFailed THEN "exception" ELSE "failure"

\* initialize(apiKey): stripeKey is the key found in the argument, the
\* environment or the settings, Absent when there is none.
InitializeStripe(stripeKey) ==
    /\ stripe' = (stripe \/ stripeKey # Absent)
    /\ stripeIsInitialized' = (stripeIsInitialized \/ stripeKey # Absent)
    /\ UNCHANGED <<invPc, invOptions, invoiceData, invoiceId, invTrace, invResult,
                   invCalls, stripeCustomers, stripeInvoices>>
    /\ UNCHANGED <<serviceVars, fnVars>>

\* createInvoice up to its first await.
CreateInvoice(options) ==
    /\ invPc \in {"idle", "returned", "threw"}
    /\ invCalls < MaxInvoiceCalls
    /\ invCalls' = invCalls + 1
    /\ invOptions' = options
    /\ invTrace' = << >>
    /\ invoiceId' = 0
    /\ IF ~isConfigured
       THEN /\ invoiceData' = NoInvoiceData
            /\ invPc' = "returned"
            /\ invResult' = "failure"
       ELSE IF options.preCalculatedMetrics # NoMetrics
       THEN LET data == InvoiceDataOf(options.preCalculatedMetrics)
            IN /\ invoiceData' = data
               /\ invPc' = AfterInvoiceData(data)
               /\ invResult' = IF data.combinedTotal <= 0 THEN "failure" ELSE "none"
       ELSE /\ invoiceData' = NoInvoiceData
            /\ invPc' = "calculateInvoiceData"
            /\ invResult' = "none"
    /\ UNCHANGED <<stripe, stripeIsInitialized, stripeCustomers, stripeInvoices>>
    /\ UNCHANGED <<serviceVars, fnVars>>

\* await this.calculateInvoiceData(...): it throws, or yields the data of
\* the calls and chats it fetched.
CalculateInvoiceData(fail, m) ==
    /\ invPc = "calculateInvoiceData"
    /\ IF fail
       THEN /\ invPc' = "catch"
            /\ UNCHANGED <<invoiceData, invResult>>
       ELSE LET data == InvoiceDataOf(m)
            IN /\ invoiceData' = data
               /\ invPc' = AfterInvoiceData(data)
               /\ invResult' = IF data.combinedTotal <= 0 THEN "failure" ELSE "none"
    /\ UNCHANGED <<stripe, stripeIsInitialized, invOptions, invoiceId, invTrace,
                   invCalls, stripeCustomers, stripeInvoices>>
    /\ UNCHANGED <<serviceVars, fnVars>>

\* await this.getOrCreateCustomer(...): customers.list, then customers.update
\* for a customer whose name or description changed, or customers.create.
GetOrCreateCustomer(failAt, needsUpdate) ==
    /\ invPc = "getOrCreateCustomer"
    /\ LET exists == TheCustomer \in stripeCustomers
           write == IF exists
                    THEN (IF needsUpdate THEN << "customers.update" >> ELSE << >>)
                    ELSE << "customers.create" >>
           threw == failAt = "list" \/ (failAt = "write" /\ write # << >>)
       IN /\ invTrace' = invTrace \o << "customers.list" >>
                            \o (IF failAt = "list" THEN << >> ELSE write)
          /\ stripeCustomers' = IF threw THEN stripeCustomers
                                ELSE stripeCustomers \cup {TheCustomer}
          /\ invPc' = IF threw THEN "catch" ELSE "invoices.create"
    /\ UNCHANGED <<stripe, stripeIsInitialized, invOptions, invoiceData, invoiceId,
                   invResult, invCalls, stripeInvoices>>
    /\ UNCHANGED <<serviceVars, fnVars>>

\* await stripe.invoices.create({customer, auto_advance: false, ...}).
InvoicesCreate(fail) ==
    /\ invPc = "invoices.create"
    /\ invTrace' = Append(invTrace, "invoices.create")
    /\ IF fail
       THEN /\ invPc' = "catch"
            /\ UNCHANGED <<invoiceId, stripeInvoices>>
       ELSE /\ stripeInvoices' = Append(stripeInvoices,
                                        [call |-> invCalls, items |-> << >>,
                                         status |-> "draft", sent |-> FALSE])
            /\ invoiceId' = Len(stripeInvoices) + 1
            /\ invPc' = AfterDraft(invoiceData, invOptions)
    /\ UNCHANGED <<stripe, stripeIsInitialized, invOptions, invoiceData, invResult,
                   invCalls, stripeCustomers>>
    /\ UNCHANGED <<serviceVars, fnVars>>

\* One pass of a loop over the call items or the SMS items:
\* await stripe.invoiceItems.create({customer, invoice: invoice.id, ...}).
InvoiceItemsCreate(fail) ==
    /\ invPc \in {"callItems", "smsItems"}
    /\ invTrace' = Append(invTrace, "invoiceItems.create")
    /\ LET item == IF invPc = "callItems" THEN invoiceData.callItems[1]
                   ELSE invoiceData.smsItems[1]
       IN IF fail
          THEN /\ invPc' = "catch"
               /\ UNCHANGED stripeInvoices
          ELSE /\ stripeInvoices' =
                     [stripeInvoices EXCEPT ![invoiceId].items =
                         Append(@, [call |-> invCalls, amount |-> item.amount_total])]
               /\ invPc' = IF invPc = "callItems"
                           THEN AfterCallItems(invoiceData, invOptions)
                           ELSE AfterItems(invOptions)
    /\ UNCHANGED <<stripe, stripeIsInitialized, invOptions, invoiceData, invoiceId,
                   invResult, invCalls, stripeCustomers>>
    /\ UNCHANGED <<serviceVars, fnVars>>

\* await stripe.invoices.finalizeInvoice(invoice.id).
FinalizeInvoice(fail) ==
    /\ invPc = "finalizeInvoice"
    /\ invTrace' = Append(invTrace, "invoices.finalizeInvoice")
    /\ IF fail
       THEN /\ invPc' = "catch"
            /\ UNCHANGED stripeInvoices
       ELSE /\ stripeInvoices' = [stripeInvoices EXCEPT ![invoiceId].status = "open"]
            /\ invPc' = "sendInvoice"
    /\ UNCHANGED <<stripe, stripeIsInitialized, invOptions, invoiceData, invoiceId,
                   invResult, invCalls, stripeCustomers>>
    /\ UNCHANGED <<serviceVars, fnVars>>

\* await stripe.invoices.sendInvoice(invoice.id).
SendInvoice(fail) ==
    /\ invPc = "sendInvoice"
    /\ invTrace' = Append(invTrace, "invoices.sendInvoice")
    /\ IF fail
       THEN /\ invPc' = "catch"
            /\ UNCHANGED stripeInvoices
       ELSE /\ stripeInvoices' = [stripeInvoices EXCEPT ![invoiceId].sent = TRUE]
            /\ invPc' = "auditCreated"
    /\ UNCHANGED <<stripe, stripeIsInitialized, invOptions, invoiceData, invoiceId,
                   invResult, invCalls, stripeCustomers>>
    /\ UNCHANGED <<serviceVars, fnVars>>

\* await AuditService.createSecurityEvent(STRIPE_INVOICE_CREATED), then the
\* success result.
AuditCreated(fail) ==
    /\ invPc = "auditCreated"
    /\ IF fail
       THEN invPc' = "catch" /\ UNCHANGED invResult
       ELSE invPc' = "returned" /\ invResult' = "success"
    /\ UNCHANGED <<stripe, stripeIsInitialized, invOptions, invoiceData, invoiceId,
                   invTrace, invCalls, stripeCustomers, stripeInvoices>>
    /\ UNCHANGED <<serviceVars, fnVars>>

\* The catch block: await AuditService.createSecurityEvent(
\* STRIPE_INVOICE_CREATION_FAILED), then the failure result.
CatchInvoice(auditFailed) ==
    /\ invPc = "catch"
    /\ invResult' = catchResult(auditFailed)
    /\ invPc' = IF invResult' = "exception" THEN "threw" ELSE "returned"
    /\ UNCHANGED <<stripe, stripeIsInitialized, invOptions, invoiceData, invoiceId,
                   invTrace, invCalls, stripeCustomers, stripeInvoices>>
    /\ UNCHANGED <<serviceVars, fnVars>>

InvoiceInit ==
    /\ stripe = FALSE
    /\ stripeIsInitialized = FALSE
    /\ invPc = "idle"
    /\ invOptions = NoOptions
    /\ invoiceData = NoInvoiceData
    /\ invoiceId = 0
    /\ invTrace = << >>
    /\ invResult = "none"
    /\ invCalls = 0
    /\ stripeCustomers = {}
    /\ stripeInvoices = << >>

\* ------------------------------------------------------------------ Init
ProfileSeeds ==
    { NoRow,
      ProfileRow("artlee", Enc(K1), EmptyAgentConfig),
      ProfileRow("artlee", Enc(K1), AgentConfig(A1, Absent)),
      ProfileRow("artlee", Corrupt, AgentConfig(A1, Absent)),
      ProfileRow("medex", Enc(K2), AgentConfig(A2, S1)) }

SettingsSeeds(t) ==
    IF t = getCurrentTenantId
    THEN { NoRow, SettingsRow(Null, Null),
           SettingsRow(AgentConfig(A2, S1), RetellConfig(K2, A2, S1)) }
    ELSE { SettingsRow(AgentConfig(A1, S1), RetellConfig(K1, A1, S1)) }

LocalSeeds ==
    { NoItem,
      EncryptedKeys(ApiKeys(K2, A1, Absent)),
      EncryptedKeys(ApiKeys(Absent, A1, S1)) }

SettingsLocalSeeds ==
    { NoItem, Settings(K2, A2, S1), Settings(TestKey, TestCallAgent, TestSmsAgent) }

ThrowPoints == {"none", "session", "emergency"}

Init ==
    /\ user_profiles \in [UserIds -> ProfileSeeds]
    /\ user_settings \in { f \in [UserIds \X TenantIds ->
                                   UNION { SettingsSeeds(t) : t \in TenantIds }] :
                             \A k \in UserIds \X TenantIds : f[k] \in SettingsSeeds(k[2]) }
    /\ apikeysLocal \in [UserIds -> LocalSeeds]
    /\ sessionBackup = NoItem
    /\ memoryBackup = NoItem
    /\ emergencyLocal = NoItem
    /\ justLoggedOut = FALSE
    /\ savePc = "idle"
    /\ saveUser = NoUser
    /\ saveKeys = NoKeys
    /\ saveDetail = NoDetail
    /\ saveResult = "none"
    /\ saveWrote = {}
    /\ saveTried = << >>
    /\ loadPc = "idle"
    /\ loadUser = NoUser
    /\ loadKeys = NoKeys
    /\ loadStatus = "none"
    /\ loadRead = {}
    /\ loadPrimary = Absent
    /\ cloudRowsRead = {}
    /\ settingsLocal \in [UserIds -> SettingsLocalSeeds]
    /\ uiApiKeys = NoKeys
    /\ uiPc = "idle"
    /\ opCount = 0
    /\ InitializerInit
    /\ Save2Init
    /\ FnInit
    /\ InvoiceInit

Next ==
    \/ \E u \in UserIds, keys \in SaveInputs : SaveStart(u, keys)
    \/ SaveStart(NoUser, HardcodedKeys)
    \/ \E fail \in BOOLEAN, dflt \in TenantIds : SaveUserProfiles(fail, dflt)
    \/ \E fail \in BOOLEAN : SavePartialKey(fail)
    \/ \E fail \in BOOLEAN : SavePartialAgents(fail)
    \/ \E fail \in BOOLEAN : SaveUserSettings(fail)
    \/ \E fail \in BOOLEAN : SaveLocalStorage(fail)
    \/ \E throwAt \in ThrowPoints : SaveMirror(throwAt)
    \/ \E u \in UserIds : LoadStart(u)
    \/ \E fail \in BOOLEAN : LoadUserProfiles(fail)
    \/ LoadProfilesLocal
    \/ LoadProfilesCatch
    \/ \E failP \in BOOLEAN, failS \in BOOLEAN : LoadPartial(failP, failS)
    \/ \E fail \in BOOLEAN : LoadUserSettings(fail)
    \/ LoadLocalStorage
    \/ \E u \in UserIds : LoadApiKeys(u)
    \/ LoadApiKeysLoaded
    \/ Logout
    \/ \E throwAt \in ThrowPoints : InitializeCredentialPersistence(throwAt)

Spec == Init /\ [][Next]_vars

\* The initializer on its own: the storage tiers stay as they start.
InitInitializer ==
    /\ Init
    /\ user_profiles = [u \in UserIds |-> NoRow]
    /\ apikeysLocal = [u \in UserIds |-> NoItem]
    /\ settingsLocal = [u \in UserIds |-> NoItem]
    /\ \A k \in UserIds \X TenantIds : k[2] = getCurrentTenantId => user_settings[k] = NoRow

NextInitializer ==
    \/ Initialize
    \/ ForceReinitialize
    \/ \E r \in RunIds, ok \in BOOLEAN : LoadCredentialsSettled(r, ok)
    \/ \E r \in RunIds, ok \in BOOLEAN : SyncSettled(r, ok)

SpecInitializer == InitInitializer /\ [][NextInitializer]_vars

\* The invoice service on its own.
InitInvoice == InitInitializer

NextInvoice ==
    \/ \E stripeKey \in {Absent, <<"sk_", "live">>} : InitializeStripe(stripeKey)
    \/ \E options \in InvoiceOptions : CreateInvoice(options)
    \/ \E fail \in BOOLEAN, m \in InvoiceMetrics : CalculateInvoiceData(fail, m)
    \/ \E failAt \in {"none", "list", "write"}, needsUpdate \in BOOLEAN :
          GetOrCreateCustomer(failAt, needsUpdate)
    \/ \E fail \in BOOLEAN : InvoicesCreate(fail)
    \/ \E fail \in BOOLEAN : InvoiceItemsCreate(fail)
    \/ \E fail \in BOOLEAN : FinalizeInvoice(fail)
    \/ \E fail \in BOOLEAN : SendInvoice(fail)
    \/ \E fail \in BOOLEAN : AuditCreated(fail)
    \/ \E auditFailed \in BOOLEAN : CatchInvoice(auditFailed)

SpecInvoice == InitInvoice /\ [][NextInvoice]_vars

\* The predicates on their own, tried on each candidate.
InitPredicates ==
    /\ user_profiles = [u \in UserIds |-> NoRow]
    /\ user_settings = [k \in UserIds \X TenantIds |-> NoRow]
    /\ apikeysLocal = [u \in UserIds |-> NoItem]
    /\ sessionBackup = NoItem
    /\ memoryBackup = NoItem
    /\ emergencyLocal = NoItem
    /\ justLoggedOut = FALSE
    /\ savePc = "idle"
    /\ saveUser = NoUser
    /\ saveKeys = NoKeys
    /\ saveDetail = NoDetail
    /\ saveResult = "none"
    /\ saveWrote = {}
    /\ saveTried = << >>
    /\ loadPc = "idle"
    /\ loadUser = NoUser
    /\ loadKeys = NoKeys
    /\ loadStatus = "none"
    /\ loadRead = {}
    /\ loadPrimary = Absent
    /\ cloudRowsRead = {}
    /\ settingsLocal = [u \in UserIds |-> NoItem]
    /\ uiApiKeys = NoKeys
    /\ uiPc = "idle"
    /\ opCount = 0
    /\ InitializerInit
    /\ Save2Init
    /\ candidate \in CredentialCandidates
    /\ valid = "none"
    /\ testData = "none"
    /\ InvoiceInit

NextPredicates ==
    \/ ValidateCredentials
    \/ IsTestCredentials

SpecPredicates == InitPredicates /\ [][NextPredicates]_vars

\* Two storeApiKeys calls for the same user, each with a fully populated
\* set, on tiers that start empty.
FullSets == { ApiKeys(K1, A1, S1), ApiKeys(K2, A2, S1) }
InitTwoSaves == InitInitializer

NextTwoSaves ==
    \/ \E u \in UserIds, keys \in FullSets : opCount = 0 /\ SaveStart(u, keys)
    \/ \E fail \in BOOLEAN, dflt \in TenantIds : SaveUserProfiles(fail, dflt)
    \/ \E fail \in BOOLEAN : SavePartialKey(fail)
    \/ \E fail \in BOOLEAN : SavePartialAgents(fail)
    \/ \E fail \in BOOLEAN : SaveUserSettings(fail)
    \/ \E fail \in BOOLEAN : SaveLocalStorage(fail)
    \/ \E throwAt \in ThrowPoints : SaveMirror(throwAt)
    \/ \E u \in UserIds, keys \in FullSets : Save2Start(u, keys)
    \/ \E fail \in BOOLEAN, dflt \in TenantIds : Save2UserProfiles(fail, dflt)
    \/ \E fail \in BOOLEAN : Save2PartialKey(fail)
    \/ \E fail \in BOOLEAN : Save2PartialAgents(fail)
    \/ \E fail \in BOOLEAN : Save2UserSettings(fail)
    \/ \E fail \in BOOLEAN : Save2LocalStorage(fail)
    \/ \E throwAt \in ThrowPoints : Save2Mirror(throwAt)

SpecTwoSaves == InitTwoSaves /\ [][NextTwoSaves]_vars

\* ------------------------------------------------------------------ claims
\* C1: tenant isolation.  No step changes a user_profiles or user_settings row
\* whose tenant_id is not the current tenant, and every cloud row handed to a
\* caller carries the current tenant id.
C1_TenantIsolation ==
    [][ /\ \A u \in UserIds :
             (user_profiles[u] # NoRow /\ user_profiles[u].tenant_id # getCurrentTenantId)
                => user_profiles'[u] = user_profiles[u]
        /\ \A k \in UserIds \X TenantIds :
             k[2] # getCurrentTenantId => user_settings'[k] = user_settings[k]
        /\ cloudRowsRead' \subseteq {getCurrentTenantId} ]_vars

\* C2: logout guard.  While justLoggedOut is set: a storeApiKeys call that
\* starts returns in the same step (no save is running after it) and that step,
\* like a run of initializeCredentialPersistence, leaves every tier as it was;
\* and no step at all (storeCredentialsEverywhere at the end of a save that
\* passed the guard earlier included) changes the session, memory or emergency
\* backup.
C2_LogoutGuard ==
    [][ justLoggedOut =>
          /\ UNCHANGED <<sessionBackup, memoryBackup, emergencyLocal>>
          /\ savePc \in {"idle", "returned"} => savePc' \in {"idle", "returned"}
          /\ (savePc \in {"idle", "returned"} /\ UNCHANGED loadVars)
                => UNCHANGED tierVars
      ]_vars

\* A save with a user id was rejected because of the logout.
C2_Witness ==
    /\ justLoggedOut
    /\ savePc = "returned"
    /\ saveUser \in UserIds
    /\ saveResult = "rejected"

\* C3: a save without a user id is rejected before any I/O, and a save that
\* attempted no tier at all had no user id or started after a logout.
C3_NoUserRejected ==
    /\ (savePc # "idle" /\ saveUser = NoUser)
          => (savePc = "returned" /\ saveResult = "rejected"
              /\ saveTried = << >> /\ saveWrote = {})
    /\ (savePc = "returned" /\ saveTried = << >>)
          => (saveResult = "rejected" /\ (saveUser = NoUser \/ justLoggedOut))
    /\ saveResult = "rejected" => (saveTried = << >> /\ saveWrote = {})

C3_Witness ==
    /\ savePc = "returned" /\ saveUser = NoUser /\ saveResult = "rejected"
    /\ ~justLoggedOut

\* The methods of storeApiKeys in the order of its fallback chain.
SaveOrder == <<"storeInUserProfiles", "storePartialInUserProfiles",
               "storeInUserSettings", "storeInLocalStorage">>
Failed(t) == saveDetail[t] \notin {"none", "success"}
Succeeded(t) == saveDetail[t] = "success"
MethodTier(m) ==
    CASE m = "storeInUserProfiles" -> "user_profiles"
      [] m = "storePartialInUserProfiles" -> "partial"
      [] m = "storeInUserSettings" -> "user_settings"
      [] m = "storeInLocalStorage" -> "localStorage"
Attempted(t) == \E i \in 1..Len(saveTried) : MethodTier(saveTried[i]) = t

\* Outcome per storage tier: cloud-secondary is user_settings, written by
\* storePartialInUserProfiles and storeInUserSettings.
TierOutcome(tier) ==
    CASE tier = "cloud-primary" -> saveDetail["user_profiles"]
      [] tier = "cloud-secondary" ->
            IF Succeeded("partial") \/ Succeeded("user_settings") THEN "success"
            ELSE IF Failed("partial") \/ Failed("user_settings") THEN "failed"
            ELSE "none"
      [] tier = "local" -> saveDetail["localStorage"]
PersistentTiers == {"cloud-primary", "cloud-secondary", "local"}

SaveRunning == savePc \notin {"idle", "returned"}
LoadRunning == loadPc \notin {"idle", "returned"}
SaveStep ==
    \/ \E fail \in BOOLEAN, dflt \in TenantIds : SaveUserProfiles(fail, dflt)
    \/ \E fail \in BOOLEAN :
          SavePartialKey(fail) \/ SavePartialAgents(fail) \/ SaveUserSettings(fail)
             \/ SaveLocalStorage(fail)
    \/ \E throwAt \in {"none", "session", "emergency"} : SaveMirror(throwAt)
LoadStep ==
    \/ \E fail \in BOOLEAN : LoadUserProfiles(fail) \/ LoadUserSettings(fail)
    \/ \E failP \in BOOLEAN, failS \in BOOLEAN : LoadPartial(failP, failS)
    \/ LoadProfilesLocal \/ LoadProfilesCatch \/ LoadLocalStorage
SaveRank(pc) ==
    CASE pc = "user_profiles" -> 1 [] pc = "partialKey" -> 2
      [] pc = "partialAgents" -> 3 [] pc = "user_settings" -> 4
      [] pc = "localStorage" -> 5 [] pc = "mirror" -> 6
      [] pc = "returned" -> 7 [] OTHER -> 0
LoadRank(pc) ==
    CASE pc = "user_profiles" -> 1 [] pc = "profilesLocal" -> 2
      [] pc = "profilesCatch" -> 2 [] pc = "partial" -> 3
      [] pc = "user_settings" -> 4 [] pc = "localStorage" -> 5
      [] pc = "returned" -> 6 [] OTHER -> 0
C5_AlwaysReturns ==
    /\ [](/\ savePc # "threw" /\ loadPc # "threw"
          /\ SaveRunning => ENABLED SaveStep
          /\ LoadRunning => ENABLED LoadStep
          /\ savePc = "returned" => saveResult \in {"success", "failed", "rejected"}
          /\ loadPc = "returned" => loadStatus \in {"success", "error"})
    /\ [][ /\ SaveRunning => SaveRank(savePc') >= SaveRank(savePc)
           /\ LoadRunning => LoadRank(loadPc') >= LoadRank(loadPc)
           /\ (SaveRunning /\ SaveStep) => SaveRank(savePc') > SaveRank(savePc)
           /\ (LoadRunning /\ LoadStep) => LoadRank(loadPc') > LoadRank(loadPc) ]_vars

\* Every tier failed a save and every tier failed a load, and both returned.
C5_Witness ==
    /\ savePc = "returned" /\ saveResult = "failed" /\ \A t \in SaveTiers : Failed(t)
    /\ loadPc = "returned" /\ loadStatus = "error"
    /\ loadRead = {"user_profiles", "user_settings", "localStorage"}

\* C6: the fallback order of save.  The methods attempted are a prefix of
\* storeInUserProfiles, storePartialInUserProfiles, storeInUserSettings,
\* storeInLocalStorage; each is attempted only after every one before it has
\* failed; and after an accepted full user_profiles write neither
\* user_settings nor the localStorage fallback is written.
C6_FallbackOrder ==
    /\ Len(saveTried) <= Len(SaveOrder)
    /\ saveTried = SubSeq(SaveOrder, 1, Len(saveTried))
    /\ \A i \in 1..Len(saveTried) : \A j \in 1..(i - 1) :
          Failed(MethodTier(saveTried[j]))
    /\ Succeeded("user_profiles") =>
          /\ saveTried = <<"storeInUserProfiles">>
          /\ saveWrote \cap {"user_settings", "localStorage"} = {}
    /\ "user_settings" \in saveWrote => Failed("user_profiles")
    /\ "localStorage" \in saveWrote =>
          (Failed("user_profiles") /\ Failed("partial") /\ Failed("user_settings"))

C6_Witness ==
    /\ savePc = "returned"
    /\ saveTried = SubSeq(SaveOrder, 1, 3)
    /\ Failed("user_profiles") /\ Failed("partial") /\ Succeeded("user_settings")
    /\ saveWrote \cap {"user_settings", "localStorage"} = {"user_settings"}

\* C7: upsert idempotence.  No store method of a save ever fails with a
\* uniqueness conflict (409, duplicate key), whatever rows the tables hold.
C7_NoConflict ==
    \A t \in SaveTiers : saveDetail[t] # "409"

\* What the localStorage tier and the user_settings row of the loading user
\* hold for the agent identifiers.
LocalHeld == retrieveFromLocalStorage(apikeysLocal, loadUser)
LocalHasAgents ==
    /\ LocalHeld.status = "success"
    /\ (LocalHeld.data.call_agent_id # Absent \/ LocalHeld.data.sms_agent_id # Absent)
SecondaryRow == user_settings[<<loadUser, getCurrentTenantId>>]
SecondaryCallId ==
    IF SecondaryRow = NoRow THEN Absent
    ELSE IF SecondaryRow.retell_agent_config # Null
         THEN SecondaryRow.retell_agent_config.call_agent_id
    ELSE IF SecondaryRow.retell_config # Null
         THEN SecondaryRow.retell_config.call_agent_id
    ELSE Absent
\* The step in which retrieveFromUserProfiles, having read a row with a
\* decryptable key and an empty agent config, returns.
EmptyConfigReturn == loadPc = "profilesLocal" /\ loadPc' = "returned"

\* C8: agent-id backfill.  When the user_profiles read gave a decryptable API
\* key and an agent config without identifiers, and localStorage holds agent
\* identifiers, load returns success with the API key of user_profiles and
\* each identifier localStorage holds.
C8_AgentIdBackfill ==
    [][ (EmptyConfigReturn /\ loadPrimary # Absent /\ LocalHasAgents) =>
           /\ loadStatus' = "success"
           /\ loadKeys'.retell_api_key = loadPrimary
           /\ LocalHeld.data.call_agent_id # Absent
                 => loadKeys'.call_agent_id = LocalHeld.data.call_agent_id
           /\ LocalHeld.data.sms_agent_id # Absent
                 => loadKeys'.sms_agent_id = LocalHeld.data.sms_agent_id
           /\ (loadKeys'.call_agent_id # Absent \/ loadKeys'.sms_agent_id # Absent)
      ]_vars

C8_Witness ==
    /\ loadPc = "returned" /\ loadStatus = "success"
    /\ loadRead = {"user_profiles", "localStorage"}
    /\ user_profiles[loadUser] # NoRow
    /\ user_profiles[loadUser].encrypted_agent_config = EmptyAgentConfig
    /\ loadKeys.retell_api_key = K1 /\ loadPrimary = K1
    /\ loadKeys.call_agent_id = A1
    /\ LocalHeld.status = "success" /\ LocalHeld.data.call_agent_id = A1

\* C9: precedence of cloud-secondary over local.  When the user_profiles read
\* gave an empty agent config and user_settings and localStorage hold different
\* call agent ids, load returns the one of user_settings, and it reads
\* localStorage for agent identifiers only after user_settings gave none.
C9_SecondaryBeforeLocal ==
    [][ (EmptyConfigReturn /\ SecondaryCallId # Absent /\ LocalHasAgents
           /\ LocalHeld.data.call_agent_id # Absent
           /\ LocalHeld.data.call_agent_id # SecondaryCallId) =>
           /\ loadKeys'.call_agent_id = SecondaryCallId
           /\ "user_settings" \in loadRead'
      ]_vars

\* C10: cloud-primary wins for the secret.  A load that returns success after
\* its user_profiles read yielded a decryptable API key returns that key,
\* whatever key localStorage holds; and loadApiKeys, when it loads through the
\* service, puts that key into the component state and the settings cache.
C10_PrimaryKeyWins ==
    /\ []((loadPc = "returned" /\ loadStatus = "success" /\ loadPrimary # Absent)
            => loadKeys.retell_api_key = loadPrimary)
    /\ [][ (uiPc = "loading" /\ uiPc' = "loaded" /\ loadStatus = "success"
             /\ loadPrimary # Absent)
              => /\ uiApiKeys'.retell_api_key = loadPrimary
                 /\ settingsLocal'[loadUser].retellApiKey = loadPrimary ]_vars

\* localStorage was read in the load and holds another, real API key.
C10_Witness ==
    /\ loadPc = "returned" /\ loadStatus = "success"
    /\ uiPc = "loaded" /\ uiApiKeys.retell_api_key = K1
    /\ loadPrimary = K1 /\ loadKeys.retell_api_key = K1
    /\ "localStorage" \in loadRead
    /\ LocalHeld.status = "success" /\ LocalHeld.data.retell_api_key = K2

\* ------------------------------------------------- the read path on its own
\* A device whose apikeys_<userId> may also hold what a test run stored
\* through storeInLocalStorage.
TestLocalSeeds ==
    { EncryptedKeys(ApiKeys(TestKey, TestCallAgent, TestSmsAgent)),
      EncryptedKeys(ApiKeys(Absent, TestCallAgent, Absent)) }

InitLoad ==
    /\ user_profiles \in [UserIds -> ProfileSeeds]
    /\ user_settings \in { f \in [UserIds \X TenantIds ->
                                   UNION { SettingsSeeds(t) : t \in TenantIds }] :
                             \A k \in UserIds \X TenantIds : f[k] \in SettingsSeeds(k[2]) }
    /\ apikeysLocal \in [UserIds -> LocalSeeds \cup TestLocalSeeds]
    /\ sessionBackup = NoItem
    /\ memoryBackup = NoItem
    /\ emergencyLocal = NoItem
    /\ justLoggedOut = FALSE
    /\ savePc = "idle"
    /\ saveUser = NoUser
    /\ saveKeys = NoKeys
    /\ saveDetail = NoDetail
    /\ saveResult = "none"
    /\ saveWrote = {}
    /\ saveTried = << >>
    /\ loadPc = "idle"
    /\ loadUser = NoUser
    /\ loadKeys = NoKeys
    /\ loadStatus = "none"
    /\ loadRead = {}
    /\ loadPrimary = Absent
    /\ cloudRowsRead = {}
    /\ settingsLocal \in [UserIds -> SettingsLocalSeeds]
    /\ uiApiKeys = NoKeys
    /\ uiPc = "idle"
    /\ opCount = 0
    /\ InitializerInit
    /\ Save2Init
    /\ FnInit
    /\ InvoiceInit

NextLoad ==
    \/ \E u \in UserIds : LoadStart(u)
    \/ \E fail \in BOOLEAN : LoadUserProfiles(fail)
    \/ LoadProfilesLocal
    \/ LoadProfilesCatch
    \/ \E failP \in BOOLEAN, failS \in BOOLEAN : LoadPartial(failP, failS)
    \/ \E fail \in BOOLEAN : LoadUserSettings(fail)
    \/ LoadLocalStorage
    \/ \E u \in UserIds : LoadApiKeys(u)
    \/ LoadApiKeysLoaded

SpecLoad == InitLoad /\ [][NextLoad]_vars

\* A field of the ApiKeys carries a reserved test prefix.
HasTestPrefix(apiKeys) ==
    \/ startsWith(apiKeys.retell_api_key, "test_key_")
    \/ startsWith(apiKeys.call_agent_id, "test_call_agent_")
    \/ startsWith(apiKeys.sms_agent_id, "test_sms_agent_")

\* The cloud rows of the loading user and tenant hold credentials that are
\* not test data.
CloudPrimaryReal ==
    /\ user_profiles[loadUser] # NoRow
    /\ user_profiles[loadUser].tenant_id = getCurrentTenantId
    /\ Decryptable(user_profiles[loadUser].encrypted_retell_api_key)
    /\ ~startsWith(decryptString(user_profiles[loadUser].encrypted_retell_api_key),
                   "test_key_")
CloudSecondaryReal ==
    /\ SecondaryRow # NoRow
    /\ SecondaryRow.retell_config # Null
    /\ ~HasTestPrefix(ApiKeys(SecondaryRow.retell_config.api_key,
                              SecondaryRow.retell_config.call_agent_id,
                              SecondaryRow.retell_config.sms_agent_id))

\* C11: test-data rejection on load.  While user_profiles or user_settings
\* holds credentials that are not test data, a load that returns success
\* returns no field with a reserved test prefix (test_key_, test_call_agent_,
\* test_sms_agent_), and neither does loadApiKeys put one into the component
\* state.
C11_NoTestDataReturned ==
    /\ (loadPc = "returned" /\ loadStatus = "success"
          /\ (CloudPrimaryReal \/ CloudSecondaryReal))
         => ~HasTestPrefix(loadKeys)
    /\ (uiPc = "loaded" /\ (CloudPrimaryReal \/ CloudSecondaryReal))
         => ~HasTestPrefix(uiApiKeys)

\* ------------------------------------ saves and loads on a device with test data
SpecSync == InitLoad /\ [][Next]_vars

\* A row of user_profiles / user_settings has a field with a reserved test prefix.
ProfileRowHasTest(row) ==
    /\ row # NoRow
    /\ \/ (Decryptable(row.encrypted_retell_api_key)
            /\ startsWith(decryptString(row.encrypted_retell_api_key), "test_key_"))
       \/ startsWith(row.encrypted_agent_config.call_agent_id, "test_call_agent_")
       \/ startsWith(row.encrypted_agent_config.sms_agent_id, "test_sms_agent_")
SettingsRowHasTest(row) ==
    /\ row # NoRow
    /\ \/ (row.retell_agent_config # Null
            /\ HasTestPrefix(ApiKeys(Absent, row.retell_agent_config.call_agent_id,
                                     row.retell_agent_config.sms_agent_id)))
       \/ (row.retell_config # Null
            /\ HasTestPrefix(ApiKeys(row.retell_config.api_key,
                                     row.retell_config.call_agent_id,
                                     row.retell_config.sms_agent_id)))
LocalTiersHoldTest ==
    \E u \in UserIds :
       \/ (settingsLocal[u] # NoItem /\ isTestCredentials(settingsLocal[u]))
       \/ (retrieveFromLocalStorage(apikeysLocal, u).status = "success"
            /\ HasTestPrefix(retrieveFromLocalStorage(apikeysLocal, u).data))

SavedToPrimary ==
    /\ savePc = "returned" /\ Succeeded("user_profiles")
    /\ startsWith(saveKeys.retell_api_key, "key_")
    /\ startsWith(saveKeys.call_agent_id, "agent_")
\* The browser of the load holds nothing for the user (another device).
LocalTiersEmpty ==
    /\ apikeysLocal[loadUser] = NoItem
    /\ settingsLocal[loadUser] = NoItem
\* The load returns the credentials of the save.
ReturnsSaved ==
    /\ loadPc' = "returned" /\ loadStatus' = "success"
    /\ loadKeys'.retell_api_key = saveKeys.retell_api_key
    /\ loadKeys'.call_agent_id = saveKeys.call_agent_id
    /\ loadKeys'.sms_agent_id = saveKeys.sms_agent_id

\* C13: cross-device scenario.  After a save of a valid credential set was
\* accepted by user_profiles, the user_profiles read of a load of the same
\* user on a device with empty local tiers returns the saved API key and
\* agent ids, unless the request itself failed (the row being there for the
\* query to find).
C13_CrossDevice ==
    [][ (loadPc = "user_profiles" /\ loadPc' # "user_profiles"
           /\ SavedToPrimary /\ loadUser = saveUser /\ LocalTiersEmpty) =>
           \/ ReturnsSaved
           \/ /\ loadPc' = "profilesCatch"
              /\ QueryUserProfiles(user_profiles, loadUser, FALSE).error = "none"
      ]_vars

\* The same with the user's user_profiles row belonging to the current tenant.
C13_CrossDeviceSameTenant ==
    [][ (loadPc = "user_profiles" /\ loadPc' # "user_profiles"
           /\ SavedToPrimary /\ loadUser = saveUser /\ LocalTiersEmpty
           /\ user_profiles[loadUser].tenant_id = getCurrentTenantId) =>
           \/ ReturnsSaved
           \/ loadPc' = "profilesCatch"
      ]_vars

\* The step that runs the catch branch of retrieveFromUserProfiles.
CatchStep == loadPc = "profilesCatch" /\ loadPc' # "profilesCatch"

\* C14 as stated: when the user_profiles query fails, load goes to
\* localStorage, returns, and user_settings is not queried in that load.
C14_PrimaryFailureSkipsSecondary ==
    [][ CatchStep => (loadPc' = "returned" /\ "user_settings" \notin loadRead') ]_vars

\* C14, amended: when the user_profiles query fails, localStorage is the next
\* tier read, before any query of user_settings; if it holds a credential set
\* the load returns that set with success and user_settings is not queried;
\* if it holds none the load goes on with its remaining methods.
C14_PrimaryFailureLocalFirst ==
    /\ [](loadPc = "profilesCatch" => loadRead = {"user_profiles"})
    /\ [][ CatchStep =>
             /\ loadRead' = {"user_profiles", "localStorage"}
             /\ IF LocalHeld.status = "success"
                THEN /\ loadPc' = "returned" /\ loadStatus' = "success"
                     /\ loadKeys' = LocalHeld.data
                ELSE /\ loadPc' = "partial" /\ loadStatus' # "success"
       ]_vars

\* The query of user_profiles failed, localStorage answered, and the row
\* user_settings holds for the user was never queried.
C14_Witness ==
    /\ loadPc = "returned" /\ loadStatus = "success" /\ loadPrimary = Absent
    /\ loadRead = {"user_profiles", "localStorage"}
    /\ loadKeys = LocalHeld.data
    /\ SecondaryRow # NoRow /\ SecondaryRow.retell_config # Null

\* The user_profiles row of the loading user is there for the query, its API
\* key does not decrypt, and its agent config has a call agent id.
PrimaryRow == user_profiles[loadUser]
DecryptionFails ==
    /\ loadUser \in UserIds
    /\ PrimaryRow # NoRow
    /\ PrimaryRow.tenant_id = getCurrentTenantId
    /\ ~Readable(PrimaryRow.encrypted_retell_api_key)
    /\ PrimaryRow.encrypted_agent_config.call_agent_id # Absent

\* C15: a decryption failure of the user_profiles API key does not abort the
\* load (no exception escapes), the load goes on and returns, and what it
\* returns has the agent ids of the user_profiles agent config.
C15_DecryptionFailureKeepsAgentIds ==
    /\ [](loadPc # "threw")
    /\ [][ (DecryptionFails /\ "user_profiles" \in loadRead
              /\ loadPc # "returned" /\ loadPc' = "returned") =>
              /\ loadKeys'.call_agent_id =
                    PrimaryRow.encrypted_agent_config.call_agent_id
              /\ PrimaryRow.encrypted_agent_config.sms_agent_id # Absent =>
                    loadKeys'.sms_agent_id =
                        PrimaryRow.encrypted_agent_config.sms_agent_id ]_vars

\* The step in which a load returns a result it resolved with a tier other
\* than user_profiles alone.
ReturnsFromLowerTier ==
    /\ LoadStep
    /\ loadPc' = "returned"
    /\ loadStatus' = "success"
    /\ loadRead' # {"user_profiles"}
\* The same step, leaving the resolved agent ids in the user's user_profiles row.
ReturnsWrittenBack ==
    /\ ReturnsFromLowerTier
    /\ user_profiles'[loadUser] # NoRow
    /\ user_profiles'[loadUser].encrypted_agent_config =
          AgentConfig(loadKeys'.call_agent_id, loadKeys'.sms_agent_id)

\* C16: whenever a load can return a result resolved with a tier other than
\* user_profiles, that return has an outcome (the write-back succeeding) after
\* which the user_profiles row holds the resolved agent ids.
C16_WriteBack == (ENABLED ReturnsFromLowerTier) => (ENABLED ReturnsWrittenBack)

Forced == \E i \in 1..Len(calls) : calls[i].op = "forceReinitialize"
\* The step of one initialize() call.
InitializeStep ==
    /\ Len(calls') = Len(calls) + 1
    /\ calls'[Len(calls')].op = "initialize"
Received == calls'[Len(calls')].promise

\* C17: with no forceReinitialize call, performInitialization is started
\* exactly once however many initialize() calls are made; a call made while
\* the run is in flight receives the promise of that run and starts nothing,
\* and a call made after the run completed successfully returns without
\* starting a run.
C17_SingleFlight ==
    /\ [](~Forced => /\ Cardinality(Started(runs)) <= 1
                     /\ (calls # << >> => Cardinality(Started(runs)) = 1))
    /\ [][ (InitializeStep /\ ~Forced) =>
              /\ InFlight(runs) # {} =>
                    (Received \in InFlight(runs) /\ Received = initPromise
                        /\ runs' = runs)
              /\ initialized => (Received = NoPromise /\ runs' = runs) ]_vars
\* Three initialize() calls: one before the run, one while it is in flight,
\* one after it completed successfully.
C17_Witness ==
    /\ ~Forced
    /\ Len(calls) = 3
    /\ calls[1].promise = 1 /\ calls[2].promise = 1 /\ calls[3].promise = NoPromise
    /\ initialized
    /\ runs[1] = "fulfilled"

\* C18: at most one run of performInitialization is in flight at any time.
C18_OneRunInFlight == Cardinality(InFlight(runs)) <= 1

\* The run started by the latest forceReinitialize() call, NoPromise if none.
RECURSIVE LastForced(_)
LastForced(n) ==
    IF n = 0 THEN NoPromise
    ELSE IF calls[n].op = "forceReinitialize" THEN calls[n].promise
    ELSE LastForced(n - 1)
ForcedRun == LastForced(Len(calls))

\* C19: the initialized flag is false until a run of performInitialization
\* has finished successfully, and after a forceReinitialize() it is false
\* until the run that call started has finished successfully.
ReportsInitialized == isInitialized \/ \E threw \in BOOLEAN : getStatus(threw)
C19_InitializedMeansCompleted ==
    /\ ReportsInitialized => \E r \in RunIds : runs[r] = "fulfilled"
    /\ (ReportsInitialized /\ ForcedRun # NoPromise) => runs[ForcedRun] = "fulfilled"

\* The call agent id and the sms agent id that user_settings and the
\* apikeys_<userId> item hold for user u (Absent where they hold none).
ItemField(item, f) == IF item = NoItem THEN Absent ELSE item[f]
ConfigField(row, col, f) ==
    IF row = NoRow THEN Absent ELSE IF row[col] = Null THEN Absent ELSE row[col][f]
HeldAgentIds(us, loc, u, f) ==
    [retell_agent_config |-> ConfigField(us[<<u, getCurrentTenantId>>],
                                         "retell_agent_config", f),
     retell_config |-> ConfigField(us[<<u, getCurrentTenantId>>], "retell_config", f),
     localStorage |-> ItemField(loc[u], f)]
Kept(before, after) ==
    \A slot \in DOMAIN before : before[slot] # Absent => after[slot] = before[slot]

\* C20: a step of a save whose credentials omit the call agent id (the sms
\* agent id) leaves that id unchanged in user_settings and in the
\* apikeys_<userId> item where they hold one; only the user_profiles agent
\* config may be replaced as a whole.
C20_PartialUpdate ==
    [][ SaveStep =>
          \A f \in {"call_agent_id", "sms_agent_id"} :
             saveKeys[f] = Absent =>
                Kept(HeldAgentIds(user_settings, apikeysLocal, saveUser, f),
                     HeldAgentIds(user_settings', apikeysLocal', saveUser, f)) ]_vars

\* Both storeApiKeys calls ran for the same user and have returned.
BothSaved ==
    /\ savePc = "returned" /\ saveResult # "rejected"
    /\ save2Pc = "returned"
    /\ saveUser = save2User
SavedSets == {saveKeys, save2Keys}
\* The record a tier holds for the user is none, or the values of one set.
SettingsOfOneSet(row) ==
    \/ row = NoRow
    \/ \E set \in SavedSets :
          /\ row.retell_agent_config \in
                {Null, AgentConfig(set.call_agent_id, set.sms_agent_id)}
          /\ row.retell_config \in
                {Null, RetellConfig(set.retell_api_key, set.call_agent_id,
                                    set.sms_agent_id)}
LocalOfOneSet(item) == item = NoItem \/ \E set \in SavedSets : item = EncryptedKeys(set)
BackupOfOneSet(item) == item = NoItem \/ \E set \in SavedSets : item = ToCreds(set)

\* C21: after two storeApiKeys calls of fully populated sets for the same
\* user have run interleaved, whatever writes failed, the user's record in
\* user_settings, in localStorage and in each backup has the values of one
\* of the two sets, never fields of both.
C21_NoMixedRecord ==
    BothSaved =>
        /\ SettingsOfOneSet(user_settings[<<saveUser, getCurrentTenantId>>])
        /\ LocalOfOneSet(apikeysLocal[saveUser])
        /\ BackupOfOneSet(sessionBackup)
        /\ BackupOfOneSet(memoryBackup)
        /\ BackupOfOneSet(emergencyLocal)

\* The last step of a save: the backups are refreshed and the call returns.
MirrorStep == savePc = "mirror" /\ savePc' = "returned"
\* That step with the set of the call in the session and the memory backup.
MirrorWritten ==
    /\ \E throwAt \in ThrowPoints : SaveMirror(throwAt)
    /\ sessionBackup' = ToCreds(saveKeys)
    /\ memoryBackup' = ToCreds(saveKeys)
\* What the step never does: it leaves user_profiles, user_settings and the
\* apikeys item alone, reports the outcome of the store methods only, and
\* leaves each backup with its old value or with the set of the call.
MirrorQuiet ==
    /\ UNCHANGED <<user_profiles, user_settings, apikeysLocal, saveDetail>>
    /\ saveResult' = SaveOverall(saveDetail)
    /\ sessionBackup' \in {sessionBackup, ToCreds(saveKeys)}
    /\ memoryBackup' \in {memoryBackup, ToCreds(saveKeys)}

WellFormed(c) ==
    /\ Len(c.apiKey) > 0 /\ Head(c.apiKey) = "key_"
    /\ Len(c.callAgentId) > 0 /\ Head(c.callAgentId) = "agent_"
    /\ Len(c.smsAgentId) > 0 => Head(c.smsAgentId) = "agent_"
AllEmpty(c) == Len(c.apiKey) = 0 /\ Len(c.callAgentId) = 0 /\ Len(c.smsAgentId) = 0

\* C23: validateCredentials returns true exactly for the well-formed
\* credentials.
C23_ValidIffWellFormed ==
    valid # "none" => (valid = "true" <=> WellFormed(candidate))

\* C23 amended: validateCredentials returns true exactly for the well-formed
\* credentials and for the credentials with all three fields empty.
C23_ValidIffWellFormedOrEmpty ==
    valid # "none" =>
        (valid = "true" <=> (WellFormed(candidate) \/ AllEmpty(candidate)))
C23_Witness ==
    /\ valid = "true"
    /\ candidate = Creds(K1, A1, Absent)

\* C29: credentials with a field that starts with test_key_,
\* test_call_agent_ or test_sms_agent_ are rejected by validateCredentials;
\* the hardcoded credentials are accepted and are not test credentials.
C29_TestDataNeverValid ==
    /\ (testData = "true" /\ valid # "none") => valid = "false"
    /\ candidate = HARDCODED_RETELL_CREDENTIALS =>
          /\ valid # "none" => valid = "true"
          /\ testData # "none" => testData = "false"
\* Credentials whose only flaw is a test sms agent id were found to be test
\* credentials and rejected.
C29_Witness ==
    /\ candidate = Creds(K1, A1, TestSmsAgent)
    /\ testData = "true"
    /\ valid = "false"

\* The step in which a run of performInitialization rejects.
RejectStep == \E r \in RunIds : runs[r] # "rejected" /\ runs'[r] = "rejected"
\* The memoized promise is that of a run that rejected.
RejectionMemoized == initPromise # NoPromise /\ runs[initPromise] = "rejected"
ForceStep ==
    /\ Len(calls') = Len(calls) + 1
    /\ calls'[Len(calls')].op = "forceReinitialize"

C25_CredentialLoadTolerated ==
    /\ [][ \A r \in RunIds :
             /\ (runs[r] = "loadCredentialsAsync" /\ runs'[r] # runs[r]) =>
                   (runs'[r] = "syncWithRetellService" /\ loaded'[r] # "none")
             /\ (runs[r] # "syncWithRetellService" /\ runs'[r] = "syncWithRetellService")
                   => runs[r] = "loadCredentialsAsync"
             /\ (runs[r] = "syncWithRetellService" /\ runs'[r] = "fulfilled")
                   => initialized' ]_vars
    /\ [](\A r \in RunIds :
             runs[r] \in {"syncWithRetellService", "fulfilled", "rejected"} =>
                loaded[r] # "none")
\* A run whose credential load rejected ended fulfilled, with the flag set.
C25_Witness ==
    /\ loaded[1] = "rejected"
    /\ runs[1] = "fulfilled"
    /\ initialized
    /\ ~Forced

\* The order in which storeCredentialsEverywhere writes.
BackupOrder == <<"session", "memory", "emergency">>
\* The first n backups in that order now hold c, the others are as before.
PrefixWritten(c) ==
    \E n \in 0..3 :
       \A i \in 1..3 :
          LET old == Backups[BackupOrder[i]]
              new == [session |-> sessionBackup', memory |-> memoryBackup',
                      emergency |-> emergencyLocal'][BackupOrder[i]]
          IN new = IF i <= n THEN c ELSE old

\* C26: a run of storeCredentialsEverywhere, at the end of a save or from
\* initializeCredentialPersistence, leaves the backups with the new value in
\* the first tiers of the order session, memory, emergency and the old value
\* in the rest, and returns to its caller whichever write threw.
C26_WriteOrder ==
    [][ /\ MirrorStep => PrefixWritten(ToCreds(saveKeys))
        /\ (savePc = "mirror" /\ savePc' # savePc) => savePc' = "returned"
        /\ (\E throwAt \in ThrowPoints : InitializeCredentialPersistence(throwAt)) =>
              PrefixWritten(getBulletproofCredentials) ]_vars
\* The emergency write of a save threw: session and memory have the set of
\* the call, the emergency item was not written, and the save returned.
C26_Witness ==
    /\ savePc = "returned" /\ saveResult = "success"
    /\ sessionBackup = ToCreds(saveKeys)
    /\ memoryBackup = ToCreds(saveKeys)
    /\ emergencyLocal = NoItem

\* A storeApiKeys call begins.
SaveStartStep ==
    \/ \E u \in UserIds, keys \in SaveInputs : SaveStart(u, keys)
    \/ SaveStart(NoUser, HardcodedKeys)
\* A save that begins while justLoggedOut is set is rejected and writes nothing.
RejectedAtStart ==
    (SaveStartStep /\ justLoggedOut) =>
        /\ savePc' = "returned" /\ saveResult' = "rejected"
        /\ UNCHANGED tierVars
\* The steps of a save that store the whole set in one tier.
FullStoreSteps == {"user_profiles", "user_settings", "localStorage"}
\* The store method a running save has reached can still write its tier.
StoreMethodCanWrite == ENABLED (SaveStep /\ saveWrote' # saveWrote)

StoredKey(row) ==
    IF row # NoRow /\ Decryptable(row.encrypted_retell_api_key)
    THEN decryptString(row.encrypted_retell_api_key) ELSE Absent

\* C28: no step of a load replaces an API key stored in user_profiles:
\* whatever tier the load reads or returns from, and whether or not its
\* user_profiles query failed, a row that held a key holds the same key after
\* the step.
C28_LoadKeepsPrimaryKey ==
    [][LoadStep =>
          \A u \in UserIds :
             StoredKey(user_profiles[u]) # Absent =>
                StoredKey(user_profiles'[u]) = StoredKey(user_profiles[u])]_vars
\* The user_profiles query of a load failed, the load returned another API key
\* from localStorage, and the row still stores its own.
C28_Witness ==
    /\ loadPc = "returned" /\ loadStatus = "success"
    /\ loadUser \in UserIds
    /\ loadRead = {"user_profiles", "localStorage"}
    /\ loadPrimary = Absent
    /\ StoredKey(user_profiles[loadUser]) # Absent
    /\ loadKeys.retell_api_key # Absent
    /\ loadKeys.retell_api_key # StoredKey(user_profiles[loadUser])

\* Place of a Stripe request in the order customer, draft, items, finalize,
\* send.
RequestRank(request) ==
    CASE request = "customers.list" -> 1
      [] request \in {"customers.update", "customers.create"} -> 2
      [] request = "invoices.create" -> 3
      [] request = "invoiceItems.create" -> 4
      [] request = "invoices.finalizeInvoice" -> 5
      [] request = "invoices.sendInvoice" -> 6
\* The requests of the running call follow that order, and only the item
\* request is made more than once.
InOrder ==
    \A i, j \in 1..Len(invTrace) :
       i < j => /\ RequestRank(invTrace[i]) <= RequestRank(invTrace[j])
                /\ RequestRank(invTrace[i]) = RequestRank(invTrace[j])
                      => invTrace[i] = "invoiceItems.create"
\* The line items the invoiceData of the call has.
ItemsDue == Len(invoiceData.callItems) + Len(invoiceData.smsItems)
\* A call that found the service not configured, or no charges, makes no
\* Stripe request.
GuardsHold ==
    /\ ~isConfigured => invTrace = << >>
    /\ (invoiceData # NoInvoiceData /\ invoiceData.combinedTotal <= 0) =>
          /\ invTrace = << >>
          /\ invPc = "returned" /\ invResult = "failure"
\* Every item is on an invoice created by the call that added it.
ItemsOnOwnDraft ==
    \A id \in 1..Len(stripeInvoices) :
       \A k \in 1..Len(stripeInvoices[id].items) :
          stripeInvoices[id].items[k].call = stripeInvoices[id].call
\* The invoice of the running call is finalized or sent only with
\* sendImmediately set and all its items added, and sent only once finalized.
FinalizedOnlyWhenComplete ==
    invoiceId # 0 =>
       LET invoice == stripeInvoices[invoiceId]
       IN /\ invoice.call = invCalls
          /\ invoice.sent => invoice.status = "open"
          /\ invoice.status = "open" =>
                /\ invOptions.sendImmediately
                /\ Len(invoice.items) = ItemsDue
\* A step of createInvoice touches no invoice but the draft of its own call.
OtherInvoicesKept ==
    \A id \in 1..Len(stripeInvoices) :
       id # invoiceId' => stripeInvoices'[id] = stripeInvoices[id]
\* What holds of createInvoice whatever its audit calls do.
InvoiceOrderAndGuards ==
    /\ [](InOrder /\ GuardsHold /\ ItemsOnOwnDraft /\ FinalizedOnlyWhenComplete)
    /\ [][OtherInvoicesKept]_vars

\* C30: createInvoice makes its Stripe requests in the order customer, draft
\* invoice, invoice items, finalize, send; it makes none when the service is
\* not configured or the combined total is not positive; items go on the draft
\* of the same call; the invoice is finalized and sent only with
\* sendImmediately set and every item added; and the call never ends with an
\* exception instead of a result.
C30_CreateInvoice ==
    /\ InvoiceOrderAndGuards
    /\ [](invPc # "threw" /\ invResult # "exception")

====
